---------------------------- MODULE Spec2Model ----------------------------
(***************************************************************************)
(* A model of the firework path tracer (ritobanrc/firework).               *)
(*                                                                         *)
(* Six state machines share this module, one per part of the program:      *)
(*   SpecBVH    the hittable list, the BVH built over it and ray queries   *)
(*              (bvh.rs, aabb.rs, render.rs HitableList / AARect)          *)
(*   SpecScene  the scene builder and its conversion (scene.rs, mesh.rs)   *)
(*   SpecColor  the path-trace recursion (render.rs color, material.rs)    *)
(*   SpecRender the per-pixel render loop of main (main.rs, drawing.rs)    *)
(*   SpecPool   the render of Renderer, its pixels shared out among the    *)
(*              workers of a pool (lib.rs re-exports Renderer)             *)
(*   SpecCalls  single calls of the functions the render is made of        *)
(*              (util.rs, aabb.rs, material.rs, objects/sphere.rs, disk.rs *)
(*              volume.rs, mesh.rs, scene.rs RenderObjectInternal)         *)
(*                                                                         *)
(* Numbers.  In the library an f32 is modelled on the subset where f32     *)
(* arithmetic is exact: a length or a ray parameter is an integer count of *)
(* thousandths (1000 = 1.0), tagged so that +inf, -inf and NaN, which the  *)
(* code produces by dividing by a zero direction component and then hands  *)
(* on in hit points and scattered rays, are values too.  In the binary's   *)
(* renderer (main.rs, camera.rs, drawing.rs) an f32 is the 32-bit integer  *)
(* that has its bits, and every operation rounds as the f32 one does.      *)
(***************************************************************************)
EXTENDS Integers, Sequences, FiniteSets, TLC

VARIABLES
    \* ---- SpecBVH ----
    list,        \* HitableList.0 : the boxed hittables, in their current order
    bvh,         \* the BVHNode built over list (NoTree before BVHNode::new)
    bvhStatus,   \* "none" | "built" | "overflow" (the build overflowed the stack)
    query,       \* the last ray query and both answers (NoQuery before one)
    \* ---- SpecScene ----
    scene,       \* the Scene under construction (moved out by the conversion)
    internal,    \* the SceneInternal the conversion produced (NoInternal before)
    handles,     \* every MaterialIdx add_material returned, with its material
    scenePhase,  \* "build" | "render" | "panicked"
    lookup,      \* the last get_material of the render loop (NoLookup before)
    \* ---- SpecColor ----
    world,       \* the HitableList color traces against
    environment, \* the environment set for the render
    trace,       \* the last call color(r, world, 0, rand) and its result
    \* ---- SpecRender ----
    config,      \* WIDTH and HEIGHT the binary is built with
    main,        \* the locals of main: pc, buffer, rng, camera, world, idx
    run,         \* 1 for the first run of the program, 2 for the second
    kept,        \* the locals the first run ended with (NoMain before)
    clock,       \* what time::Instant::now() reads, in seconds
    \* ---- SpecPool ----
    renderer,    \* one render of Renderer: buffer, workers, their pieces
    \* ---- SpecCalls ----
    call         \* the one call made: its function, arguments and result

varsBVH == <<list, bvh, bvhStatus, query>>
varsScene == <<scene, internal, handles, scenePhase, lookup>>
varsColor == <<world, environment, trace>>
varsRender == <<config, main, run, kept, clock>>
varsPool == <<renderer>>
varsCalls == <<call>>
vars == <<list, bvh, bvhStatus, query, scene, internal, handles, scenePhase, lookup,
          world, environment, trace, config, main, run, kept, clock, renderer, call>>

-----------------------------------------------------------------------------
(* Bounds of the model *)

\* longest hittable list built
MaxObjs == 3
\* call depth at which BVHNode::new_helper has used up the thread's stack
StackLimit == 5
\* most materials, render objects and meshes added to one Scene
MaxMaterials == 2
MaxSceneObjs == 2
MaxMeshes == 1
\* widest and highest buffer a pixel coordinate is computed for
MaxSide == 4
\* longest world traced, and largest seed given to a trace's generator
MaxWorld == 2
MaxSeed == 3
\* widest and tallest buffer rendered (WIDTH = 1920, HEIGHT = 1080 in main.rs)
MaxWidth == 3
MaxHeight == 3
\* samples per pixel (100 in main.rs)
SAMPLES == 2
\* half the side of the grid of small spheres (11 in main.rs)
GridHalf == 1
\* latest second the clock reaches
MaxClock == 2
\* workers of the pool of a multithreaded render
MaxWorkers == 2

-----------------------------------------------------------------------------
(* f32 on its exact subset: <<tag, n>>, tag 0 finite (n thousandths),       *)
(* 1 = +inf, -1 = -inf, 2 = NaN, 3 finite and too large for a count of      *)
(* thousandths (n whole units; such a number is only compared).             *)

Fin(n) == <<0, n>>
PosInf == <<1, 0>>
NegInf == <<-1, 0>>
NaN == <<2, 0>>
Whole(n) == <<3, n>>

IsNaN(a) == a[1] = 2
IsFin(a) == a[1] = 0
IsInf(a) == a[1] = 1 \/ a[1] = -1
IsWhole(a) == a[1] = 3

\* a < b for two numbers neither infinite nor NaN
FinLt(a, b) ==
    CASE IsFin(a) /\ IsFin(b) -> a[2] < b[2]
      [] IsWhole(a) /\ IsWhole(b) -> a[2] < b[2]
      [] IsFin(a) /\ IsWhole(b) -> (a[2] \div 1000) < b[2]
      [] IsWhole(a) /\ IsFin(b) -> a[2] < -((-b[2]) \div 1000)

\* a < b on f32: false when either side is NaN
FLt(a, b) ==
    /\ ~IsNaN(a)
    /\ ~IsNaN(b)
    /\ IF IsInf(a) \/ IsInf(b)
       THEN (a = NegInf /\ b # NegInf) \/ (b = PosInf /\ a # PosInf)
       ELSE FinLt(a, b)

FGt(a, b) == FLt(b, a)

\* f32::max and f32::min: a NaN operand is ignored
FMax(a, b) == IF IsNaN(a) THEN b ELSE IF IsNaN(b) THEN a ELSE IF FLt(a, b) THEN b ELSE a
FMin(a, b) == IF IsNaN(a) THEN b ELSE IF IsNaN(b) THEN a ELSE IF FLt(b, a) THEN b ELSE a

\* a + b on f32; inf + -inf is NaN
FAdd(a, b) ==
    CASE IsNaN(a) \/ IsNaN(b) -> NaN
      [] IsFin(a) /\ IsFin(b) -> Fin(a[2] + b[2])
      [] IsInf(a) /\ IsFin(b) -> a
      [] IsFin(a) /\ IsInf(b) -> b
      [] IsInf(a) /\ IsInf(b) -> IF a = b THEN a ELSE NaN

\* -a and a - b on f32
FNeg(a) ==
    CASE IsNaN(a) -> NaN
      [] IsFin(a) -> Fin(-a[2])
      [] IsInf(a) -> <<-a[1], 0>>
FSub(a, b) == FAdd(a, FNeg(b))

Sign(n) == IF n > 0 THEN 1 ELSE IF n < 0 THEN -1 ELSE 0

\* the quotient a / b of two integers, b # 0 (exact on the model's inputs)
Quot(a, b) == IF b > 0 THEN a \div b ELSE (-a) \div (-b)

\* the sign of a number that is not NaN: 1, 0 or -1
FSign(a) ==
    CASE IsFin(a) -> Sign(a[2])
      [] IsInf(a) -> a[1]

\* a * b on f32; 0 * inf is NaN
FMul(a, b) ==
    CASE IsNaN(a) \/ IsNaN(b) -> NaN
      [] IsFin(a) /\ IsFin(b) -> Fin(Quot(a[2] * b[2], 1000))
      [] FSign(a) * FSign(b) = 0 -> NaN
      [] FSign(a) * FSign(b) > 0 -> PosInf
      [] FSign(a) * FSign(b) < 0 -> NegInf

\* a / b on f32: x / 0 is an infinity, 0 / 0 and inf / inf are NaN
FDiv(a, b) ==
    CASE IsNaN(a) \/ IsNaN(b) -> NaN
      [] IsFin(a) /\ IsFin(b) /\ b[2] # 0 -> Fin(Quot(a[2] * 1000, b[2]))
      [] IsFin(a) /\ IsFin(b) ->
             IF a[2] = 0 THEN NaN ELSE IF a[2] > 0 THEN PosInf ELSE NegInf
      [] IsInf(a) /\ IsInf(b) -> NaN
      [] IsInf(a) /\ IsFin(b) -> IF b[2] < 0 THEN FNeg(a) ELSE a
      [] IsFin(a) /\ IsInf(b) -> Fin(0)

-----------------------------------------------------------------------------
(* Vec3, Ray, AABB *)

Axes == 1..3

\* Axis::other (util.rs): the axis that is neither a nor b
AxisOther(a, b) == CHOOSE c \in Axes : c # a /\ c # b

\* a vector of finite numbers as a vector of f32s, and a ray of two
F3(v) == <<Fin(v[1]), Fin(v[2]), Fin(v[3])>>
FRay(r) == [origin |-> F3(r.origin), dir |-> F3(r.dir)]
NaN3 == <<NaN, NaN, NaN>>
IsFin3(v) == IsFin(v[1]) /\ IsFin(v[2]) /\ IsFin(v[3])

\* Ray::point: origin + t * dir, componentwise; the components of a ray are
\* f32s
RayPoint(r, t) == <<FAdd(r.origin[1], FMul(t, r.dir[1])),
                    FAdd(r.origin[2], FMul(t, r.dir[2])),
                    FAdd(r.origin[3], FMul(t, r.dir[3]))>>

Min2(a, b) == IF a < b THEN a ELSE b
Max2(a, b) == IF a > b THEN a ELSE b

\* a box that is the second of the two alone
AABBExpandOther(box, other) == other

\* AABB::expand: the componentwise union box
AABBExpand(box, other) ==
    [min |-> <<Min2(box.min[1], other.min[1]),
               Min2(box.min[2], other.min[2]),
               Min2(box.min[3], other.min[3])>>,
     max |-> <<Max2(box.max[1], other.max[1]),
               Max2(box.max[2], other.max[2]),
               Max2(box.max[3], other.max[3])>>]

\* One axis of AABB::hit's slab test: the interval after axis c, and whether
\* the closure returned true
SlabStep(box, r, c, iv) ==
    LET inv_dir == FDiv(Fin(1000), r.dir[c])
        a == FMul(FSub(Fin(box.min[c]), r.origin[c]), inv_dir)
        b == FMul(FSub(Fin(box.max[c]), r.origin[c]), inv_dir)
        t0 == IF FLt(inv_dir, Fin(0)) THEN b ELSE a
        t1 == IF FLt(inv_dir, Fin(0)) THEN a ELSE b
        lo == FMax(iv.tmin, t0)
        hi == FMin(iv.tmax, t1)
    IN [tmin |-> lo, tmax |-> hi, ok |-> FGt(hi, lo)]

\* AABB::hit: `all` over the axes x, y, z, stopping at the first false
AABBHit(box, r, t_min, t_max) ==
    LET s1 == SlabStep(box, r, 1, [tmin |-> t_min, tmax |-> t_max])
        s2 == SlabStep(box, r, 2, s1)
        s3 == SlabStep(box, r, 3, s2)
    IN s1.ok /\ s2.ok /\ s3.ok

-----------------------------------------------------------------------------
(* Hittables of the list: axis-aligned rectangles (render.rs AARect)        *)

\* 0.01, the half thickness of a rectangle's bounding box
RectPad == 10

NoHit == [some |-> FALSE]
SomeHit(rec) == [some |-> TRUE, hit |-> rec]

\* AARect::new(a1_min, a1_max, a2_min, a2_max, k, material) on axes a1, a2
AARect(a1, a2, a1_min, a1_max, a2_min, a2_max, k, material) ==
    [a1 |-> a1, a2 |-> a2, min |-> <<a1_min, a2_min>>, max |-> <<a1_max, a2_max>>,
     k |-> k, material |-> material]

\* AARect::hit
AARectHit(s, r, t_min, t_max) ==
    LET o == AxisOther(s.a1, s.a2)
        t == FDiv(FSub(Fin(s.k), r.origin[o]), r.dir[o])
        point == RayPoint(r, t)
    IN IF FLt(t, t_min) \/ FGt(t, t_max) THEN NoHit
       ELSE IF \/ FLt(point[s.a1], Fin(s.min[1]))
               \/ FGt(point[s.a1], Fin(s.max[1]))
               \/ FLt(point[s.a2], Fin(s.min[2]))
               \/ FGt(point[s.a2], Fin(s.max[2]))
            THEN NoHit
       ELSE SomeHit([t |-> t, point |-> point,
                     normal |-> <<IF 1 = o THEN 1000 ELSE 0,
                                  IF 2 = o THEN 1000 ELSE 0,
                                  IF 3 = o THEN 1000 ELSE 0>>,
                     material |-> s.material])

\* AARect::bounding_box
AARectBox(s) ==
    LET o == AxisOther(s.a1, s.a2)
    IN [min |-> <<IF 1 = s.a1 THEN s.min[1] ELSE IF 1 = s.a2 THEN s.min[2] ELSE s.k - RectPad,
                  IF 2 = s.a1 THEN s.min[1] ELSE IF 2 = s.a2 THEN s.min[2] ELSE s.k - RectPad,
                  IF 3 = s.a1 THEN s.min[1] ELSE IF 3 = s.a2 THEN s.min[2] ELSE s.k - RectPad>>,
        max |-> <<IF 1 = s.a1 THEN s.max[1] ELSE IF 1 = s.a2 THEN s.max[2] ELSE s.k + RectPad,
                  IF 2 = s.a1 THEN s.max[1] ELSE IF 2 = s.a2 THEN s.max[2] ELSE s.k + RectPad,
                  IF 3 = s.a1 THEN s.max[1] ELSE IF 3 = s.a2 THEN s.max[2] ELSE s.k + RectPad>>]

Zero3 == <<0, 0, 0>>
VAdd(a, b) == <<a[1] + b[1], a[2] + b[2], a[3] + b[3]>>
VSub(a, b) == <<a[1] - b[1], a[2] - b[2], a[3] - b[3]>>
\* f * v for a scalar f
VScale(f, v) == <<Quot(f * v[1], 1000), Quot(f * v[2], 1000), Quot(f * v[3], 1000)>>
\* the componentwise product of two colours
VMul(a, b) == <<Quot(a[1] * b[1], 1000), Quot(a[2] * b[2], 1000), Quot(a[3] * b[3], 1000)>>
VDot(a, b) == Quot(a[1] * b[1] + a[2] * b[2] + a[3] * b[3], 1000)

\* Vec3 + Vec3, Vec3 - Vec3 and f32 * Vec3 on f32s
FVAdd(a, b) == <<FAdd(a[1], b[1]), FAdd(a[2], b[2]), FAdd(a[3], b[3])>>
FVSub(a, b) == <<FSub(a[1], b[1]), FSub(a[2], b[2]), FSub(a[3], b[3])>>
FVScale(f, v) == <<FMul(f, v[1]), FMul(f, v[2]), FMul(f, v[3])>>

\* Vec3::dot on f32s: the sum of the three products, NaN when a term is
FVDot(a, b) ==
    IF IsFin3(a) /\ IsFin3(b)
    THEN Fin(Quot(a[1][2] * b[1][2] + a[2][2] * b[2][2] + a[3][2] * b[3][2], 1000))
    ELSE FAdd(FAdd(FMul(a[1], b[1]), FMul(a[2], b[2])), FMul(a[3], b[3]))

\* Mat3 * Vec3 for a matrix of finite rows
FMatVec(m, v) == <<FVDot(F3(m[1]), v), FVDot(F3(m[2]), v), FVDot(F3(m[3]), v)>>

\* the integer square root of n >= 0, by bisection between lo and hi
RECURSIVE IsqrtIn(_, _, _)
IsqrtIn(n, lo, hi) ==
    IF lo >= hi THEN lo
    ELSE LET mid == (lo + hi + 1) \div 2
         IN IF mid * mid <= n THEN IsqrtIn(n, mid, hi) ELSE IsqrtIn(n, lo, mid - 1)

\* f32::sqrt on thousandths, rounded down to the thousandth
Sqrt(x) == IsqrtIn(x * 1000, 0, 46340)

\* f32::sqrt on f32s: NaN below zero
FSqrt(a) ==
    CASE IsNaN(a) \/ a = NegInf -> NaN
      [] a = PosInf -> PosInf
      [] IsFin(a) -> IF a[2] < 0 THEN NaN ELSE Fin(Sqrt(a[2]))

\* Vec3::normalized: each component over the magnitude
NormalizedBy(v, mag) == <<FDiv(v[1], mag), FDiv(v[2], mag), FDiv(v[3], mag)>>
Normalized(v) == NormalizedBy(v, FSqrt(FVDot(v, v)))

-----------------------------------------------------------------------------
(* f32 to the bit.  The binary's renderer (main.rs, camera.rs, drawing.rs)  *)
(* compares roots with t_min = 0.001, takes differences of nearly equal     *)
(* numbers and casts each scattered ray from the hit point before it, so    *)
(* its numbers are kept exactly: an f32 is the 32-bit integer that has its  *)
(* bits, and every operation rounds to the nearest f32, ties to the even.   *)

\* x without its sign bit, x with its sign bit flipped, and the f32 of a sign
\* and a magnitude
f32_abs(x) == IF x < 0 THEN (x + 2147483647) + 1 ELSE x
f32_neg(x) == IF x < 0 THEN (x + 2147483647) + 1 ELSE (x - 2147483647) - 1
f32_signed(neg, mag) == IF neg THEN (mag - 2147483647) - 1 ELSE mag

f32_is_nan(x) == f32_abs(x) > 2139095040
f32_is_inf(x) == f32_abs(x) = 2139095040
f32_is_zero(x) == f32_abs(x) = 0

\* a finite x is f32_mant(x) * 2^f32_exp(x), negated if x < 0
f32_mant(x) ==
    IF f32_abs(x) < 8388608 THEN f32_abs(x) ELSE (f32_abs(x) % 8388608) + 8388608
f32_exp(x) == IF f32_abs(x) < 8388608 THEN -149 ELSE (f32_abs(x) \div 8388608) - 150

\* the number of bits of m, 0 <= m < 2^31
BitLen(m) ==
    IF m < 65536
    THEN IF m < 256
         THEN IF m < 16
              THEN IF m < 4 THEN (IF m < 2 THEN m ELSE 2) ELSE (IF m < 8 THEN 3 ELSE 4)
              ELSE IF m < 64 THEN (IF m < 32 THEN 5 ELSE 6) ELSE (IF m < 128 THEN 7 ELSE 8)
         ELSE IF m < 4096
              THEN IF m < 1024 THEN (IF m < 512 THEN 9 ELSE 10)
                   ELSE (IF m < 2048 THEN 11 ELSE 12)
              ELSE IF m < 16384 THEN (IF m < 8192 THEN 13 ELSE 14)
                   ELSE (IF m < 32768 THEN 15 ELSE 16)
    ELSE IF m < 16777216
         THEN IF m < 1048576
              THEN IF m < 262144 THEN (IF m < 131072 THEN 17 ELSE 18)
                   ELSE (IF m < 524288 THEN 19 ELSE 20)
              ELSE IF m < 4194304 THEN (IF m < 2097152 THEN 21 ELSE 22)
                   ELSE (IF m < 8388608 THEN 23 ELSE 24)
         ELSE IF m < 268435456
              THEN IF m < 67108864 THEN (IF m < 33554432 THEN 25 ELSE 26)
                   ELSE (IF m < 134217728 THEN 27 ELSE 28)
              ELSE IF m < 1073741824 THEN (IF m < 536870912 THEN 29 ELSE 30) ELSE 31

\* m with its `shift` lowest bits rounded off, to the nearest and on a tie to
\* the even; sticky says that bits below m were lost already
RoundOff(m, shift, sticky) ==
    IF shift > 31 THEN 0
    ELSE IF shift = 31
    THEN (IF m > 1073741824 \/ (m = 1073741824 /\ sticky) THEN 1 ELSE 0)
    ELSE IF \/ m % (2^shift) > 2^(shift - 1)
            \/ /\ m % (2^shift) = 2^(shift - 1)
               /\ (sticky \/ (m \div (2^shift)) % 2 = 1)
         THEN (m \div (2^shift)) + 1
         ELSE m \div (2^shift)

\* the f32 of q * 2^e, for e >= -149 and q of 24 bits, fewer only if
\* e = -149 and 2^24 at most: past the largest finite value it is infinite
f32_pack(neg, q, e) ==
    IF e + 149 >= 254 THEN f32_signed(neg, 2139095040)
    ELSE f32_signed(neg, (e + 149) * 8388608 + q)

\* the f32 nearest to m * 2^e (and a little more if sticky), m < 2^31
f32_round_by(neg, m, e, sticky, shift) ==
    IF shift > 0 THEN f32_pack(neg, RoundOff(m, shift, sticky), e + shift)
    ELSE f32_pack(neg, m * (2^(-shift)), e + shift)
f32_round(neg, m, e, sticky) ==
    IF m = 0 THEN f32_signed(neg, 0)
    ELSE f32_round_by(neg, m, e, sticky,
                      IF BitLen(m) - 24 > -149 - e THEN BitLen(m) - 24 ELSE -149 - e)

\* `n as f32`
f32_of_int(n) ==
    IF n < 0 THEN f32_round(TRUE, -n, 0, FALSE) ELSE f32_round(FALSE, n, 0, FALSE)

\* a < b, a > b, a <= b: false when either side is NaN
f32_key(x) == IF x < 0 THEN -f32_abs(x) ELSE x
f32_lt(a, b) == ~f32_is_nan(a) /\ ~f32_is_nan(b) /\ f32_key(a) < f32_key(b)
f32_gt(a, b) == f32_lt(b, a)
f32_le(a, b) == ~f32_is_nan(a) /\ ~f32_is_nan(b) /\ f32_key(a) <= f32_key(b)

f32_inf(neg) == f32_signed(neg, 2139095040)
f32_nan == f32_signed(FALSE, 2143289344)

\* a * b for finite a and b: the 48 bits of the product of the mantissas are
\* hi * 2^24 + lo, of which 30 are kept
MulRound(neg, hi, lo, e, k) ==
    f32_round(neg, hi * (2^(24 - k)) + (lo \div (2^k)), e + k, lo % (2^k) # 0)
MulHiLo(neg, hi, lo, e) ==
    MulRound(neg, hi, lo, e, IF BitLen(hi) > 6 THEN BitLen(hi) - 6 ELSE 0)
MulParts(neg, hi, mid, lo, e) ==
    MulHiLo(neg, hi + (mid \div 4096) + (((mid % 4096) * 4096 + lo) \div 16777216),
            ((mid % 4096) * 4096 + lo) % 16777216, e)
MulFinite(neg, ma, mb, e) ==
    MulParts(neg, (ma \div 4096) * (mb \div 4096),
             (ma \div 4096) * (mb % 4096) + (ma % 4096) * (mb \div 4096),
             (ma % 4096) * (mb % 4096), e)
f32_mul(a, b) ==
    IF f32_is_nan(a) \/ f32_is_nan(b) THEN f32_nan
    ELSE IF f32_is_inf(a) \/ f32_is_inf(b)
    THEN (IF f32_is_zero(a) \/ f32_is_zero(b) THEN f32_nan ELSE f32_inf((a < 0) # (b < 0)))
    ELSE MulFinite((a < 0) # (b < 0), f32_mant(a), f32_mant(b), f32_exp(a) + f32_exp(b))

\* a + b for finite a and b that are not zero, |a| >= |b|: b is aligned
\* with a, five bits below a's last, by a shift of d bits
AddAligned(neg, same, ma, mb, e, sticky) ==
    IF same THEN f32_round(neg, ma + mb, e, sticky)
    ELSE IF ma = mb /\ ~sticky THEN 0
    ELSE f32_round(neg, ma - mb - (IF sticky THEN 1 ELSE 0), e, sticky)
AddOrdered(a, b, d) ==
    IF d >= 30
    THEN AddAligned(a < 0, (a < 0) = (b < 0), f32_mant(a) * 32, 0, f32_exp(a) - 5, TRUE)
    ELSE AddAligned(a < 0, (a < 0) = (b < 0), f32_mant(a) * 32,
                    (f32_mant(b) * 32) \div (2^d), f32_exp(a) - 5,
                    (f32_mant(b) * 32) % (2^d) # 0)
f32_add(a, b) ==
    IF f32_is_nan(a) \/ f32_is_nan(b) THEN f32_nan
    ELSE IF f32_is_inf(a) THEN (IF f32_is_inf(b) /\ a # b THEN f32_nan ELSE a)
    ELSE IF f32_is_inf(b) THEN b
    ELSE IF f32_is_zero(a) THEN (IF f32_is_zero(b) /\ a # b THEN 0 ELSE b)
    ELSE IF f32_is_zero(b) THEN a
    ELSE IF f32_abs(a) >= f32_abs(b) THEN AddOrdered(a, b, f32_exp(a) - f32_exp(b))
    ELSE AddOrdered(b, a, f32_exp(b) - f32_exp(a))
f32_sub(a, b) == f32_add(a, f32_neg(b))

\* a / b for finite a and b that are not zero: the mantissas are brought to
\* 24 bits and divided to 26 bits below the point, 7, 7, 6 and 6 at a time
RECURSIVE DivDigits(_, _, _, _, _, _)
DivDigits(neg, q, r, mb, e, bits) ==
    IF bits = <<>> THEN f32_round(neg, q, e, r # 0)
    ELSE DivDigits(neg, q * (2^bits[1]) + ((r * (2^bits[1])) \div mb),
                   (r * (2^bits[1])) % mb, mb, e, Tail(bits))
DivNormal(neg, ma, mb, e) == DivDigits(neg, ma \div mb, ma % mb, mb, e - 26, <<7, 7, 6, 6>>)
f32_div(a, b) ==
    IF f32_is_nan(a) \/ f32_is_nan(b) THEN f32_nan
    ELSE IF f32_is_inf(a) THEN (IF f32_is_inf(b) THEN f32_nan ELSE f32_inf((a < 0) # (b < 0)))
    ELSE IF f32_is_inf(b) THEN f32_signed((a < 0) # (b < 0), 0)
    ELSE IF f32_is_zero(b)
    THEN (IF f32_is_zero(a) THEN f32_nan ELSE f32_inf((a < 0) # (b < 0)))
    ELSE IF f32_is_zero(a) THEN f32_signed((a < 0) # (b < 0), 0)
    ELSE DivNormal((a < 0) # (b < 0),
                   f32_mant(a) * (2^(24 - BitLen(f32_mant(a)))),
                   f32_mant(b) * (2^(24 - BitLen(f32_mant(b)))),
                   (f32_exp(a) - (24 - BitLen(f32_mant(a))))
                   - (f32_exp(b) - (24 - BitLen(f32_mant(b)))))

\* x.sqrt() for a finite x > 0: the root r of the mantissa and what is left
\* of it, rem, are carried on by `steps` bits more
RECURSIVE SqrtDigits(_, _, _, _)
SqrtDigits(r, rem, e, steps) ==
    IF steps = 0 THEN f32_round(FALSE, r, e, rem # 0)
    ELSE IF rem * 4 >= 4 * r + 1
    THEN SqrtDigits(2 * r + 1, rem * 4 - (4 * r + 1), e, steps - 1)
    ELSE SqrtDigits(2 * r, rem * 4, e, steps - 1)
SqrtFrom(m, r, e) == SqrtDigits(r, m - r * r, (e \div 2) - 13, 13)
SqrtEven(m, e) ==
    IF e % 2 = 0 THEN SqrtFrom(m, IsqrtIn(m, 2896, 4095), e)
    ELSE SqrtFrom(2 * m, IsqrtIn(2 * m, 4096, 5792), e - 1)
f32_sqrt(x) ==
    IF f32_is_nan(x) THEN f32_nan
    ELSE IF f32_is_zero(x) THEN x
    ELSE IF x < 0 THEN f32_nan
    ELSE IF f32_is_inf(x) THEN x
    ELSE SqrtEven(f32_mant(x) * (2^(24 - BitLen(f32_mant(x)))),
                  f32_exp(x) - (24 - BitLen(f32_mant(x))))

\* ---- f64.  x.powf(5.) and x.tan() are the powf and the tanf of the C
\* library the binary is linked with (glibc 2.36, x86-64 with fused
\* multiply-add), which compute in doubles.  A double is <<neg, m, e>>: the
\* number m * 2^e, negated if neg, where m has 53 bits, or is zero, and is
\* kept in digits of 12 bits, the lowest first ----

Digit(xs, k) == IF k >= 1 /\ k <= Len(xs) THEN xs[k] ELSE 0
RECURSIVE BigTop(_, _)
BigTop(xs, n) == IF n = 0 \/ xs[n] # 0 THEN n ELSE BigTop(xs, n - 1)
RECURSIVE BigLowZero(_, _)
BigLowZero(xs, n) == n = 0 \/ (xs[n] = 0 /\ BigLowZero(xs, n - 1))

\* the digits of n, 0 <= n < 2^31; the five lowest digits of xs; the number
\* of the three lowest digits of xs
BigOf(n) == <<n % 4096, (n \div 4096) % 4096, n \div 16777216>>
Big5(xs) == <<Digit(xs, 1), Digit(xs, 2), Digit(xs, 3), Digit(xs, 4), Digit(xs, 5)>>
BigInt(xs) == Digit(xs, 1) + 4096 * Digit(xs, 2) + 16777216 * Digit(xs, 3)

\* the number of bits of xs
BigBitsAt(xs, n) == IF n = 0 THEN 0 ELSE 12 * (n - 1) + BitLen(xs[n])
BigBits(xs) == BigBitsAt(xs, BigTop(xs, Len(xs)))

\* xs + ys
RECURSIVE BigAddFrom(_, _, _, _)
BigAddFrom(xs, ys, k, carry) ==
    IF k > Len(xs) /\ k > Len(ys) THEN <<carry>>
    ELSE <<(Digit(xs, k) + Digit(ys, k) + carry) % 4096>>
         \o BigAddFrom(xs, ys, k + 1, (Digit(xs, k) + Digit(ys, k) + carry) \div 4096)
BigAdd(xs, ys) == BigAddFrom(xs, ys, 1, 0)

\* xs - ys, for xs >= ys
RECURSIVE BigSubFrom(_, _, _, _)
BigSubFrom(xs, ys, k, borrow) ==
    IF k > Len(xs) THEN <<>>
    ELSE <<(Digit(xs, k) - Digit(ys, k) - borrow + 4096) % 4096>>
         \o BigSubFrom(xs, ys, k + 1,
                       IF Digit(xs, k) - Digit(ys, k) - borrow < 0 THEN 1 ELSE 0)
BigSub(xs, ys) == BigSubFrom(xs, ys, 1, 0)

\* xs < ys, decided by the digits k and below
RECURSIVE BigLessFrom(_, _, _)
BigLessFrom(xs, ys, k) ==
    IF k = 0 THEN FALSE
    ELSE IF Digit(xs, k) # Digit(ys, k) THEN Digit(xs, k) < Digit(ys, k)
    ELSE BigLessFrom(xs, ys, k - 1)
BigLess(xs, ys) == BigLessFrom(xs, ys, IF Len(xs) > Len(ys) THEN Len(xs) ELSE Len(ys))

\* xs * d for one digit d
RECURSIVE BigScaleFrom(_, _, _, _)
BigScaleFrom(xs, d, k, carry) ==
    IF k > Len(xs) THEN <<carry>>
    ELSE <<(xs[k] * d + carry) % 4096>>
         \o BigScaleFrom(xs, d, k + 1, (xs[k] * d + carry) \div 4096)

\* xs * ys for xs of five digits: the digit k of the product is the sum of
\* the column k and of what the columns below carry
BigColumn(xs, ys, k) ==
    Digit(xs, 1) * Digit(ys, k) + Digit(xs, 2) * Digit(ys, k - 1)
    + Digit(xs, 3) * Digit(ys, k - 2) + Digit(xs, 4) * Digit(ys, k - 3)
    + Digit(xs, 5) * Digit(ys, k - 4)
RECURSIVE BigMulFrom(_, _, _, _)
BigMulFrom(xs, ys, k, carry) ==
    IF k > Len(ys) + 5 THEN <<>>
    ELSE <<(BigColumn(xs, ys, k) + carry) % 4096>>
         \o BigMulFrom(xs, ys, k + 1, (BigColumn(xs, ys, k) + carry) \div 4096)
BigMul(xs, ys) == BigMulFrom(xs, ys, 1, 0)

\* xs * 2^s, s < 144
BigShl(xs, s) ==
    SubSeq(<<0, 0, 0, 0, 0, 0, 0, 0, 0, 0, 0, 0>>, 1, s \div 12)
    \o BigScaleFrom(xs, 2^(s % 12), 1, 0)

\* xs without its `drop` lowest bits, in five digits
BigShrDigit(xs, dd, db, k) ==
    (Digit(xs, k + dd) \div (2^db)) + (Digit(xs, k + dd + 1) % (2^db)) * (2^(12 - db))
BigShr(xs, drop) ==
    <<BigShrDigit(xs, drop \div 12, drop % 12, 1), BigShrDigit(xs, drop \div 12, drop % 12, 2),
      BigShrDigit(xs, drop \div 12, drop % 12, 3), BigShrDigit(xs, drop \div 12, drop % 12, 4),
      BigShrDigit(xs, drop \div 12, drop % 12, 5)>>

\* the bit b of xs, the lowest being the bit 0, and whether a bit below it
\* is set
BigBit(xs, b) == (Digit(xs, (b \div 12) + 1) \div (2^(b % 12))) % 2
BigAnyBelow(xs, b) ==
    \/ Digit(xs, (b \div 12) + 1) % (2^(b % 12)) # 0
    \/ ~BigLowZero(xs, IF b \div 12 > Len(xs) THEN Len(xs) ELSE b \div 12)

\* xs / 2^drop rounded to the nearest integer, on a tie to the even, drop > 0
BigRoundShr(xs, drop) ==
    IF BigBit(xs, drop - 1) = 1 /\ (BigAnyBelow(xs, drop - 1) \/ BigBit(xs, drop) = 1)
    THEN Big5(BigAdd(BigShr(xs, drop), <<1>>))
    ELSE BigShr(xs, drop)

f64_zero == <<FALSE, <<0, 0, 0, 0, 0>>, 0>>
f64_is_zero(a) == BigTop(a[2], Len(a[2])) = 0
f64_neg(a) == <<~a[1], a[2], a[3]>>

\* the double nearest to xs * 2^e, xs having `bits` bits: rounding 53 ones
\* up gives 2^53, which is 2^52 one exponent higher
f64_carry(neg, xs, e) ==
    IF xs[5] >= 32 THEN <<neg, <<0, 0, 0, 0, 16>>, e + 1>> ELSE <<neg, xs, e>>
f64_round_bits(neg, xs, e, bits) ==
    IF bits = 0 THEN f64_zero
    ELSE IF bits > 53 THEN f64_carry(neg, BigRoundShr(xs, bits - 53), e + (bits - 53))
    ELSE <<neg, Big5(BigShl(xs, 53 - bits)), e - (53 - bits)>>
f64_round(neg, xs, e) == f64_round_bits(neg, xs, e, BigBits(xs))

\* the double nearest to the sum of xs * 2^ea and ys * 2^eb, each negated if
\* its flag says so, rounded once.  Aligned, both have the exponent e.
\* Ordered, ea >= eb and neither is zero: if ys * 2^eb ends three bits or
\* more below the last bit of xs * 2^ea, all it decides is whether the sum
\* is above or below xs * 2^ea, as one sixteenth of that last bit does
f64_sum_aligned(na, xs, nb, ys, e) ==
    IF na = nb THEN f64_round(na, BigAdd(xs, ys), e)
    ELSE IF BigLess(xs, ys) THEN f64_round(nb, BigSub(ys, xs), e)
    ELSE f64_round(na, BigSub(xs, ys), e)
f64_sum_ordered(na, xs, ea, nb, ys, eb) ==
    IF eb + BigBits(ys) <= ea - 3
    THEN f64_sum_aligned(na, BigShl(xs, 4), nb, <<1>>, ea - 4)
    ELSE f64_sum_aligned(na, BigShl(xs, ea - eb), nb, ys, eb)
f64_sum(na, xs, ea, nb, ys, eb) ==
    IF BigTop(xs, Len(xs)) = 0 THEN f64_round(nb, ys, eb)
    ELSE IF BigTop(ys, Len(ys)) = 0 THEN f64_round(na, xs, ea)
    ELSE IF ea >= eb THEN f64_sum_ordered(na, xs, ea, nb, ys, eb)
    ELSE f64_sum_ordered(nb, ys, eb, na, xs, ea)

\* a + b, a - b, a * b, and a * b + c rounded once (the fused multiply-add)
f64_add(a, b) == f64_sum(a[1], a[2], a[3], b[1], b[2], b[3])
f64_sub(a, b) == f64_sum(a[1], a[2], a[3], ~b[1], b[2], b[3])
f64_mul(a, b) == f64_round(a[1] # b[1], BigMul(a[2], b[2]), a[3] + b[3])
f64_fma(a, b, c) == f64_sum(a[1] # b[1], BigMul(a[2], b[2]), a[3] + b[3], c[1], c[2], c[3])

\* a < b
f64_is_neg(a) == a[1] /\ ~f64_is_zero(a)
f64_lt(a, b) == f64_is_neg(f64_sub(a, b))

\* `n as f64` for |n| < 2^31, `x as f64` for a finite f32 x, `a as f32`
f64_of_int(n) == IF n < 0 THEN f64_round(TRUE, BigOf(-n), 0) ELSE f64_round(FALSE, BigOf(n), 0)
f64_of_f32(x) == f64_round(x < 0, BigOf(f32_mant(x)), f32_exp(x))
f64_as_f32(a) ==
    IF f64_is_zero(a) THEN f32_signed(a[1], 0)
    ELSE f32_round(a[1],
                   a[2][5] * 33554432 + a[2][4] * 8192 + a[2][3] * 2 + (a[2][2] \div 2048),
                   a[3] + 23, a[2][2] % 2048 # 0 \/ a[2][1] # 0)

\* ---- powf (sysdeps/ieee754/flt-32/e_powf.c): x^y = exp2(y * log2(x)) ----

\* __powf_log2_data: for each of the 16 intervals, 1/c and log2(c) of its
\* centre c; then the polynomial of log2(1 + r), the highest power first
powf_log2_tab ==
    << <<<<FALSE, <<958, 3983, 3193, 1566, 22>>, -52>>,
       <<TRUE, <<25, 2403, 1627, 4076, 30>>, -54>>>>,
       <<<<FALSE, <<2109, 2808, 3402, 1822, 21>>, -52>>,
       <<TRUE, <<3236, 3407, 2098, 182, 27>>, -54>>>>,
       <<<<FALSE, <<176, 3841, 2544, 2387, 20>>, -52>>,
       <<TRUE, <<1915, 507, 2826, 1048, 23>>, -54>>>>,
       <<<<FALSE, <<901, 2944, 1456, 3225, 19>>, -52>>,
       <<TRUE, <<3963, 1756, 2330, 2526, 19>>, -54>>>>,
       <<<<FALSE, <<1189, 2182, 2316, 209, 19>>, -52>>,
       <<TRUE, <<1585, 3883, 3059, 473, 16>>, -54>>>>,
       <<<<FALSE, <<3744, 184, 635, 1506, 18>>, -52>>,
       <<TRUE, <<2800, 951, 3355, 1985, 25>>, -55>>>>,
       <<<<FALSE, <<1087, 419, 2634, 2996, 17>>, -52>>,
       <<TRUE, <<3231, 2803, 915, 3998, 18>>, -55>>>>,
       <<<<FALSE, <<1466, 2222, 2288, 565, 17>>, -52>>,
       <<TRUE, <<3420, 1928, 3007, 1548, 25>>, -56>>>>,
       <<<<FALSE, <<167, 2448, 3905, 2387, 16>>, -52>>,
       <<TRUE, <<4046, 1141, 3510, 1785, 26>>, -57>>>>,
       <<<<FALSE, <<0, 0, 0, 0, 16>>, -52>>,
       <<FALSE, <<0, 0, 0, 0, 0>>, 0>>>>,
       <<<<FALSE, <<1964, 2468, 3325, 1544, 30>>, -53>>,
       <<FALSE, <<1341, 591, 2719, 908, 19>>, -56>>>>,
       <<<<FALSE, <<2720, 38, 799, 2635, 28>>, -53>>,
       <<FALSE, <<442, 905, 2388, 1898, 20>>, -55>>>>,
       <<<<FALSE, <<3302, 1711, 1623, 515, 27>>, -53>>,
       <<FALSE, <<1234, 3150, 2890, 2112, 30>>, -55>>>>,
       <<<<FALSE, <<2605, 2586, 355, 3117, 25>>, -53>>,
       <<FALSE, <<1308, 3174, 1520, 100, 20>>, -54>>>>,
       <<<<FALSE, <<493, 1924, 1539, 2158, 24>>, -53>>,
       <<FALSE, <<4088, 441, 3116, 2281, 24>>, -54>>>>,
       <<<<FALSE, <<2146, 1332, 3317, 1661, 23>>, -53>>,
       <<FALSE, <<3020, 2839, 1102, 3594, 28>>, -54>>>> >>

powf_log2_poly ==
    << <<FALSE, <<3595, 1174, 1737, 1889, 18>>, -54>>,
       <<TRUE, <<1658, 1884, 2464, 406, 23>>, -54>>,
       <<FALSE, <<2781, 2683, 2668, 3184, 30>>, -54>>,
       <<TRUE, <<1736, 3055, 1864, 340, 23>>, -53>>,
       <<FALSE, <<2091, 683, 1893, 340, 23>>, -52>> >>

\* __exp2f_data: the 53 bits of 2^(i/32), i = 0 .. 31; then the polynomial of
\* 2^(r/32)
exp2f_tab ==
    << <<0, 0, 0, 0, 16>>,
       <<1396, 344, 211, 1435, 16>>,
       <<2319, 3992, 2156, 2901, 16>>,
       <<2897, 293, 464, 304, 17>>,
       <<379, 2005, 2108, 1835, 17>>,
       <<2474, 1675, 1841, 3400, 17>>,
       <<568, 1878, 2670, 903, 18>>,
       <<3809, 509, 3573, 2537, 18>>,
       <<1813, 795, 3594, 111, 19>>,
       <<2507, 938, 1847, 1818, 19>>,
       <<1058, 291, 1612, 3562, 19>>,
       <<2349, 1560, 2144, 1248, 20>>,
       <<2599, 866, 2773, 3069, 20>>,
       <<3970, 2516, 2902, 834, 21>>,
       <<1065, 1157, 2013, 2736, 21>>,
       <<1413, 933, 3760, 583, 22>>,
       <<3021, 2035, 3686, 2569, 22>>,
       <<3956, 3781, 1512, 503, 23>>,
       <<391, 3760, 1139, 2577, 23>>,
       <<3603, 1228, 2457, 600, 24>>,
       <<219, 682, 1346, 2766, 24>>,
       <<1509, 3292, 1968, 883, 25>>,
       <<144, 2623, 386, 3145, 25>>,
       <<1373, 994, 946, 1360, 26>>,
       <<941, 1453, 3993, 3721, 26>>,
       <<3655, 4021, 1778, 2039, 27>>,
       <<668, 2133, 3037, 409, 28>>,
       <<105, 3833, 220, 2930, 28>>,
       <<1159, 4026, 2268, 1409, 29>>,
       <<2911, 1977, 1843, 4041, 29>>,
       <<218, 2633, 4002, 2634, 30>>,
       <<1344, 1764, 1627, 1287, 31>> >>

exp2f_poly ==
    << <<FALSE, <<916, 2322, 2123, 1711, 28>>, -57>>,
       <<FALSE, <<1267, 4012, 3664, 3068, 30>>, -55>>,
       <<FALSE, <<726, 197, 767, 740, 22>>, -53>> >>

\* log2_inline once r = z/c - 1 and y0 = log2(c) + k are known
PowfLog2Sum(r, r2, y0) ==
    f64_fma(f64_fma(powf_log2_poly[1], r, powf_log2_poly[2]), f64_mul(r2, r2),
            f64_fma(r2, f64_fma(powf_log2_poly[3], r, powf_log2_poly[4]),
                    f64_fma(r, powf_log2_poly[5], y0)))
PowfLog2R(r, y0) == PowfLog2Sum(r, f64_mul(r, r), y0)

\* log2_inline: x = m * 2^e with m of 24 bits is 2^k * z with z in
\* [0.7, 1.4), and tmp is what x's bits are above those of 0.7 (OFF)
powf_log2(m, tmp) ==
    PowfLog2R(f64_fma(f64_round(FALSE, BigOf(m),
                                ((1060306944 + (tmp % 8388608)) \div 8388608) - 150),
                      powf_log2_tab[((tmp \div 524288) % 16) + 1][1],
                      <<TRUE, <<0, 0, 0, 0, 16>>, -52>>),
              f64_add(powf_log2_tab[((tmp \div 524288) % 16) + 1][2],
                      f64_of_int(tmp \div 8388608)))

\* exp2_inline once k, the nearest integer to 32 * xd, is known: r is xd less
\* k / 32 and s is 2^(k / 32), with the sign of the result
PowfExp2Poly(r, s) ==
    f64_as_f32(f64_mul(f64_fma(f64_fma(exp2f_poly[1], r, exp2f_poly[2]), f64_mul(r, r),
                               f64_fma(r, exp2f_poly[3], <<FALSE, <<0, 0, 0, 0, 16>>, -52>>)),
                       s))
PowfExp2K(neg, xd, k) ==
    PowfExp2Poly(f64_sub(xd, IF k < 0 THEN f64_round(TRUE, BigOf(-k), -5)
                             ELSE f64_round(FALSE, BigOf(k), -5)),
                 <<neg, exp2f_tab[(k % 32) + 1], (k \div 32) - 52>>)

\* exp2_inline, for xd zero or 2^-40 < |xd| < 2^10
powf_exp2(neg, xd) ==
    IF f64_is_zero(xd) THEN PowfExp2K(neg, xd, 0)
    ELSE PowfExp2K(neg, xd, (IF xd[1] THEN -1 ELSE 1)
                            * BigInt(BigRoundShr(xd[2], -(xd[3] + 5))))

\* powf once ylogx = y * log2(x) is known: past 2^128 the result is
\* infinite, at 2^-150 and below it is zero, and below 2^-149 it is the
\* smallest f32
PowfOfLog(neg, ylogx) ==
    IF f64_lt(<<FALSE, <<1393, 3357, 4095, 4095, 31>>, -46>>, ylogx)
    THEN f32_inf(neg)
    ELSE IF ~f64_lt(<<TRUE, <<0, 0, 0, 3072, 18>>, -45>>, ylogx) THEN f32_signed(neg, 0)
    ELSE IF f64_lt(ylogx, <<TRUE, <<0, 0, 0, 2560, 18>>, -45>>) THEN f32_signed(neg, 1)
    ELSE powf_exp2(neg, ylogx)

\* powf(x, 5.0) for |x| = m * 2^e, m of 24 bits: the result has the sign of
\* x, 5 being odd
Pow5Of(neg, m, e) ==
    PowfOfLog(neg, f64_mul(<<FALSE, <<0, 0, 0, 0, 20>>, -50>>,
                           powf_log2(m, ((e + 150) * 8388608 + (m - 8388608)) - 1060306944)))

\* x.powf(5.)
Pow5(x) ==
    IF f32_is_nan(x) THEN f32_nan
    ELSE IF f32_is_inf(x) \/ f32_is_zero(x) THEN x
    ELSE Pow5Of(x < 0, f32_mant(x) * (2^(24 - BitLen(f32_mant(x)))),
                f32_exp(x) - (24 - BitLen(f32_mant(x))))

\* ---- tanf (sysdeps/ieee754/flt-32/s_tanf.c, k_tanf.c) ----

\* T[0] .. T[12] of k_tanf.c
TanfT ==
    <<1051372203, 1040746633, 1029508561, 1018374052, 1007761183,
      996894998, 985587272, 974792392, 964769721, 950268997,
      949338234, -1214534049, 936989572>>

\* x with the 12 lowest bits of its mantissa cleared
TanfChop(x) == f32_signed(x < 0, (f32_abs(x) \div 4096) * 4096)

\* __kernel_tanf: the odd and the even half of the polynomial in z = x * x,
\* w = z * z, and the correction r of tan(x + y) = x + r, s being z * x
TanfOdd(w) ==
    f32_add(TanfT[2], f32_mul(w, f32_add(TanfT[4], f32_mul(w, f32_add(TanfT[6],
        f32_mul(w, f32_add(TanfT[8], f32_mul(w, f32_add(TanfT[10],
            f32_mul(w, TanfT[12]))))))))))
TanfEven(z, w) ==
    f32_mul(z, f32_add(TanfT[3], f32_mul(w, f32_add(TanfT[5], f32_mul(w, f32_add(TanfT[7],
        f32_mul(w, f32_add(TanfT[9], f32_mul(w, f32_add(TanfT[11],
            f32_mul(w, TanfT[13])))))))))))
TanfR(y, z, s, w) ==
    f32_add(f32_add(y, f32_mul(z, f32_add(f32_mul(s, f32_add(TanfOdd(w), TanfEven(z, w))),
                                          y))),
            f32_mul(TanfT[1], s))
TanfSeries(x, y, z) == TanfR(y, z, f32_mul(z, x), f32_mul(z, z))

\* __kernel_tanf for iy = -1 and |x| < 0.6744: -1 / (x + r), from w = x + r
\* chopped to z and a = -1 / w chopped to t.  -1.0 / w and 1.0 + t * z are
\* computed in doubles and rounded to f32, to which the f32 operations are
\* equal: no quotient 1 / w is within 2^-53 of the middle of two f32s, and
\* t * z is so close to -1 that the sum is exact
TanfRecipOf(t, a, z, v) ==
    f32_add(t, f32_mul(a, f32_add(f32_add(f32_of_int(1), f32_mul(t, z)), f32_mul(t, v))))
TanfRecipA(x, r, z, a) == TanfRecipOf(TanfChop(a), a, z, f32_sub(r, f32_sub(z, x)))
TanfRecip(x, r, w) == TanfRecipA(x, r, TanfChop(w), f32_div(f32_of_int(-1), w))

\* __kernel_tanf for |x| >= 0.6744, x being pi/4 - |x| by now: w = x + r,
\* and the result has the sign of the argument
TanfSigned(neg, v) == IF neg THEN f32_neg(v) ELSE v
TanfBigOf(neg, x, r, w, iy) ==
    TanfSigned(neg, f32_sub(f32_of_int(iy),
                            f32_mul(f32_of_int(2),
                                    f32_sub(x, f32_sub(f32_div(f32_mul(w, w),
                                                               f32_add(w, f32_of_int(iy))),
                                                       r)))))
TanfBigR(neg, x, r, iy) == TanfBigOf(neg, x, r, f32_add(x, r), iy)
TanfBig(neg, x, iy) ==
    IF f32_abs(x) < 956301312
    THEN f32_mul(f32_of_int(IF neg THEN -iy ELSE iy),
                 f32_sub(f32_of_int(1), f32_mul(f32_of_int(2 * iy), x)))
    ELSE TanfBigR(neg, x, TanfSeries(x, 0, f32_mul(x, x)), iy)

\* __kernel_tanf for 2^-13 <= |x| < 0.6744
TanfSmallR(x, r, iy) == IF iy = 1 THEN f32_add(x, r) ELSE TanfRecip(x, r, f32_add(x, r))

\* __kernel_tanf(x, y, iy): tan(x + y) if iy = 1 and -1 / tan(x + y) if
\* iy = -1, for |x| <= pi/4 and y the tail of x
kernel_tanf(x, y, iy) ==
    IF f32_abs(x) < 956301312
    THEN (IF f32_abs(x) = 0 /\ iy = -1 THEN f32_inf(FALSE)
          ELSE IF iy = 1 THEN x ELSE f32_div(f32_of_int(-1), x))
    ELSE IF f32_abs(x) >= 1059889472
    THEN TanfBig(x < 0, f32_add(f32_sub(1061752794, f32_abs(x)),
                                f32_sub(857874792, IF x < 0 THEN f32_neg(y) ELSE y)),
                 iy)
    ELSE TanfSmallR(x, TanfSeries(x, y, f32_mul(x, x)), iy)

\* tanf for pi/4 < |x| < 120: x less n times pi/2 is computed in doubles,
\* n being the nearest integer to x * 2/pi, and split in an f32 and its tail
TanfReduced(xr, y0, n) ==
    kernel_tanf(y0, f64_as_f32(f64_sub(xr, f64_of_f32(y0))), IF n % 2 = 1 THEN -1 ELSE 1)
TanfReduceBy(xd, n) ==
    TanfReduced(f64_sub(xd, f64_mul(f64_of_int(n),
                                    <<FALSE, <<3352, 1090, 2900, 543, 25>>, -52>>)),
                f64_as_f32(f64_sub(xd, f64_mul(f64_of_int(n),
                                               <<FALSE, <<3352, 1090, 2900, 543, 25>>, -52>>))),
                n)
TanfTrunc(r) == (IF r[1] THEN -1 ELSE 1) * BigInt(BigShr(r[2], -r[3]))
TanfReduce(xd) ==
    TanfReduceBy(xd,
        (TanfTrunc(f64_mul(xd, <<FALSE, <<2179, 3228, 109, 1523, 20>>, -29>>))
         + 8388608) \div 16777216)

\* f32::tan, for |x| < 120 and for what is not finite
f32_tan(x) ==
    CASE f32_abs(x) <= 1061752794 -> kernel_tanf(x, 0, 1)
      [] f32_abs(x) >= 2139095040 -> f32_nan
      [] f32_abs(x) > 1061752794 /\ f32_abs(x) < 1122959360 -> TanfReduce(f64_of_f32(x))

\* `x as u8`: the integer part, saturated to 0 .. 255, 0 for NaN
f32_as_u8(x) ==
    IF f32_is_nan(x) \/ x < 0 THEN 0
    ELSE IF f32_exp(x) >= -15 THEN 255
    ELSE IF f32_exp(x) < -30 THEN 0
    ELSE IF f32_mant(x) \div (2^(-f32_exp(x))) > 255 THEN 255
    ELSE f32_mant(x) \div (2^(-f32_exp(x)))

\* the f32 literal of n thousandths (0.001 is F32(1)), and the Vec3 of three
F32(n) == f32_div(f32_of_int(n), f32_of_int(1000))
F32s(v) == <<F32(v[1]), F32(v[2]), F32(v[3])>>

\* Vec3 of f32s: +, -, f * v, the componentwise product, v / f, -v
vec3_add(a, b) == <<f32_add(a[1], b[1]), f32_add(a[2], b[2]), f32_add(a[3], b[3])>>
vec3_sub(a, b) == <<f32_sub(a[1], b[1]), f32_sub(a[2], b[2]), f32_sub(a[3], b[3])>>
vec3_scale(f, v) == <<f32_mul(f, v[1]), f32_mul(f, v[2]), f32_mul(f, v[3])>>
vec3_mul(a, b) == <<f32_mul(a[1], b[1]), f32_mul(a[2], b[2]), f32_mul(a[3], b[3])>>
vec3_div(v, f) == <<f32_div(v[1], f), f32_div(v[2], f), f32_div(v[3], f)>>
vec3_neg(v) == <<f32_neg(v[1]), f32_neg(v[2]), f32_neg(v[3])>>

\* Vec3::dot, Vec3::mag, Vec3::normalized and Vec3::cross
vec3_dot(a, b) ==
    f32_add(f32_add(f32_mul(a[1], b[1]), f32_mul(a[2], b[2])), f32_mul(a[3], b[3]))
vec3_mag(v) == f32_sqrt(vec3_dot(v, v))
vec3_normalized(v) == vec3_scale(f32_div(f32_of_int(1), vec3_mag(v)), v)
vec3_cross(a, b) ==
    << f32_sub(f32_mul(a[2], b[3]), f32_mul(a[3], b[2])),
       f32_sub(f32_mul(a[3], b[1]), f32_mul(a[1], b[3])),
       f32_sub(f32_mul(a[1], b[2]), f32_mul(a[2], b[1])) >>

-----------------------------------------------------------------------------
(* The shapes of the binary's renderer (drawing.rs) *)

\* drawing::Sphere::new(center, radius, material)
DrawingSphere(center, radius, material) ==
    [center |-> center, radius |-> radius, material |-> material]

\* drawing::LambertianMat::new(albedo), drawing::MetalMat::new(albedo)
DrawingLambertianMat(albedo) ==
    [kind |-> "DrawingLambertian", albedo |-> albedo, roughness |-> 0]
DrawingMetalMat(albedo) == [kind |-> "DrawingMetal", albedo |-> albedo, roughness |-> 0]

\* MetalMat::new(albedo, roughness) as main.rs calls it: the metal of
\* material.rs, which keeps the roughness
DrawingRoughMetalMat(albedo, roughness) ==
    [kind |-> "DrawingRoughMetal", albedo |-> albedo, roughness |-> roughness]

\* `if temp < t_max && temp > t_min`, for the nearer root and then the farther
SphereRootOf(near, far, t_max, t_min) ==
    IF f32_lt(near, t_max) /\ f32_gt(near, t_min) THEN [some |-> TRUE, t |-> near]
    ELSE IF f32_lt(far, t_max) /\ f32_gt(far, t_min) THEN [some |-> TRUE, t |-> far]
    ELSE [some |-> FALSE]

\* the nested fn roots of drawing::Sphere::hit once lhs and rhs are known
SphereRootsOf(lhs, rhs, a, t_max, t_min) ==
    SphereRootOf(f32_div(f32_sub(lhs, rhs), a), f32_div(f32_add(lhs, rhs), a), t_max, t_min)

\* the nested fn roots of drawing::Sphere::hit: the nearer root if it is
\* inside (t_min, t_max), else the farther
SphereRoots(a, b, c, t_max, t_min) ==
    SphereRootsOf(f32_neg(b), f32_sqrt(f32_sub(f32_mul(b, b), f32_mul(a, c))), a,
                  t_max, t_min)

\* Some(Hit { t, point, normal: (point - self.center) / self.radius, material })
DrawingHit(s, t, point) ==
    SomeHit([t |-> t, point |-> point,
             normal |-> vec3_div(vec3_sub(point, s.center), s.radius),
             material |-> s.material])

\* Ray::point of the binary: origin + t * dir
DrawingRayPoint(r, t) == vec3_add(r.origin, vec3_scale(t, r.dir))

\* drawing::Sphere::hit once roots has answered
DrawingSphereHitRoot(s, r, root) ==
    IF root.some THEN DrawingHit(s, root.t, DrawingRayPoint(r, root.t)) ELSE NoHit

\* drawing::Sphere::hit once a, b and c are known
DrawingSphereHitOf(s, r, a, b, c, t_min, t_max) ==
    IF f32_gt(f32_sub(f32_mul(b, b), f32_mul(a, c)), 0)
    THEN DrawingSphereHitRoot(s, r, SphereRoots(a, b, c, t_max, t_min))
    ELSE NoHit

\* drawing::Sphere::hit once v = origin - center is known
DrawingSphereHitFrom(s, r, v, t_min, t_max) ==
    DrawingSphereHitOf(s, r, vec3_dot(r.dir, r.dir), vec3_dot(v, r.dir),
                       f32_sub(vec3_dot(v, v), f32_mul(s.radius, s.radius)),
                       t_min, t_max)

\* drawing::Sphere::hit
DrawingSphereHit(s, r, t_min, t_max) ==
    DrawingSphereHitFrom(s, r, vec3_sub(r.origin, s.center), t_min, t_max)

\* drawing::HitableList::hit: the linear scan, from element i on; new_hit is
\* what element i answered
RECURSIVE DrawingListHitFrom(_, _, _, _, _, _)
DrawingListHitNext(l, i, r, t_min, closest, last_hit, new_hit) ==
    IF new_hit.some
    THEN DrawingListHitFrom(l, i + 1, r, t_min, new_hit.hit.t, new_hit)
    ELSE DrawingListHitFrom(l, i + 1, r, t_min, closest, last_hit)
DrawingListHitFrom(l, i, r, t_min, closest, last_hit) ==
    IF i > Len(l) THEN last_hit
    ELSE DrawingListHitNext(l, i, r, t_min, closest, last_hit,
                            DrawingSphereHit(l[i], r, t_min, closest))

DrawingListHit(l, r, t_min, t_max) == DrawingListHitFrom(l, 1, r, t_min, t_max, NoHit)

\* FlipNormals::new(obj)
FlipNormals(obj) == [flipped |-> <<obj>>]

\* dyn Hitable dispatch for the elements of the list: FlipNormals::hit
\* negates the normal of its object's hit; otherwise AARect::hit
RECURSIVE ObjHit(_, _, _, _)
ObjHit(s, r, t_min, t_max) ==
    IF "flipped" \in DOMAIN s
    THEN LET h == ObjHit(s.flipped[1], r, t_min, t_max)
         IN IF h.some
            THEN SomeHit([h.hit EXCEPT !.normal = <<-h.hit.normal[1], -h.hit.normal[2],
                                                    -h.hit.normal[3]>>])
            ELSE NoHit
    ELSE AARectHit(s, r, t_min, t_max)

\* FlipNormals::bounding_box is its object's
RECURSIVE ObjBox(_)
ObjBox(s) == IF "flipped" \in DOMAIN s THEN ObjBox(s.flipped[1]) ELSE AARectBox(s)

\* HitableList::hit: the linear closest-hit scan, from element i on
RECURSIVE ListHitFrom(_, _, _, _, _, _)
ListHitFrom(l, i, r, t_min, closest, last_hit) ==
    IF i > Len(l) THEN last_hit
    ELSE LET new_hit == ObjHit(l[i], r, t_min, closest)
         IN IF new_hit.some
            THEN ListHitFrom(l, i + 1, r, t_min, new_hit.hit.t, new_hit)
            ELSE ListHitFrom(l, i + 1, r, t_min, closest, last_hit)

ListHit(l, r, t_min, t_max) == ListHitFrom(l, 1, r, t_min, t_max, NoHit)

-----------------------------------------------------------------------------
(* BVH (bvh.rs) *)

ZeroBox == [min |-> <<0, 0, 0>>, max |-> <<0, 0, 0>>]

\* A BVHNode: kind is the BVHNodeVariant, objs the hittables a leaf refers to,
\* kids the two boxed children of a branch
NoTree == [kind |-> "None", objs |-> <<>>, kids |-> <<>>, aabb |-> ZeroBox]
Leaf(a) == [kind |-> "Leaf", objs |-> <<a>>, kids |-> <<>>, aabb |-> ObjBox(a)]
\* a double-leaf that refers to its first hittable in both slots
DoubleLeafFirstTwice(a, b) ==
    [kind |-> "DoubleLeaf", objs |-> <<a, a>>, kids |-> <<>>,
     aabb |-> AABBExpand(ObjBox(a), ObjBox(b))]
DoubleLeaf(a, b) ==
    [kind |-> "DoubleLeaf", objs |-> <<a, b>>, kids |-> <<>>,
     aabb |-> AABBExpand(ObjBox(a), ObjBox(b))]
Branch(left, right) ==
    [kind |-> "Branch", objs |-> <<>>, kids |-> <<left, right>>,
     aabb |-> AABBExpand(left.aabb, right.aabb)]

\* The key new_helper's sort_unstable_by compares at a depth: min.x at depth
\* 0 mod 3, min.y at 1 mod 3, and min.x again at 2 mod 3
SortKey(s, depth) ==
    IF depth % 3 = 1 THEN ObjBox(s).min[2] ELSE ObjBox(s).min[1]

\* sort_unstable_by leaves the order of equal keys unspecified: every
\* arrangement of the slice that is sorted by the key is a possible outcome
SortedArrangements(l, depth) ==
    {q \in {[i \in 1..Len(l) |-> l[p[i]]] : p \in Permutations(1..Len(l))} :
        \A i \in 1..(Len(q) - 1) : SortKey(q[i], depth) <= SortKey(q[i + 1], depth)}

\* BVHNode::new_helper: the possible outcomes [overflow, node, list] of the
\* call on slice l at recursion depth `depth`; list is the slice as the call
\* leaves it.  A call deeper than the stack allows overflows the stack.
RECURSIVE new_helper(_, _)
new_helper(l, depth) ==
    IF depth > StackLimit
    THEN {[overflow |-> TRUE, node |-> NoTree, list |-> l]}
    ELSE UNION {
        IF Len(q) = 1
        THEN {[overflow |-> FALSE, node |-> Leaf(q[1]), list |-> q]}
        ELSE IF Len(q) = 2
        THEN {[overflow |-> FALSE, node |-> DoubleLeaf(q[1], q[2]), list |-> q]}
        ELSE LET half == Len(q) \div 2
                 front_half == SubSeq(q, 1, half)
                 back_half == SubSeq(q, half + 1, Len(q))
             IN UNION {
                 IF left.overflow
                 THEN {[overflow |-> TRUE, node |-> NoTree, list |-> q]}
                 ELSE {IF right.overflow
                       THEN [overflow |-> TRUE, node |-> NoTree, list |-> q]
                       ELSE [overflow |-> FALSE,
                             node |-> Branch(left.node, right.node),
                             list |-> left.list \o right.list]
                       : right \in new_helper(back_half, depth + 1)}
                 : left \in new_helper(front_half, depth + 1)}
        : q \in SortedArrangements(l, depth)}

\* a match that keeps the left hit whenever there is one
CloserHitLeft(left_hit, right_hit) == IF left_hit.some THEN left_hit ELSE right_hit

\* The match on (left_hit, right_hit) of BVHNode::hit
CloserHit(left_hit, right_hit) ==
    IF ~left_hit.some /\ ~right_hit.some THEN NoHit
    ELSE IF ~right_hit.some THEN left_hit
    ELSE IF ~left_hit.some THEN right_hit
    ELSE IF FLt(left_hit.hit.t, right_hit.hit.t) THEN left_hit
    ELSE right_hit

\* BVHNode::hit
RECURSIVE BVHHit(_, _, _, _)
BVHHit(node, r, t_min, t_max) ==
    IF AABBHit(node.aabb, r, t_min, t_max)
    THEN IF node.kind = "Leaf"
         THEN ObjHit(node.objs[1], r, t_min, t_max)
         ELSE IF node.kind = "DoubleLeaf"
         THEN CloserHit(ObjHit(node.objs[1], r, t_min, t_max),
                        ObjHit(node.objs[2], r, t_min, t_max))
         ELSE CloserHit(BVHHit(node.kids[1], r, t_min, t_max),
                        BVHHit(node.kids[2], r, t_min, t_max))
    ELSE NoHit

\* The calls of hit that BVHNode::hit makes itself, in order: none when the
\* node's box is missed, else one of the hittable of a leaf, or one of each
\* of the two hittables of a double-leaf or the two children of a branch,
\* each with the interval it is handed
NodeProbes(node, r, t_min, t_max) ==
    IF AABBHit(node.aabb, r, t_min, t_max)
    THEN IF node.kind = "Leaf"
         THEN <<[of |-> node.objs[1], t_min |-> t_min, t_max |-> t_max]>>
         ELSE IF node.kind = "DoubleLeaf"
         THEN <<[of |-> node.objs[1], t_min |-> t_min, t_max |-> t_max],
                [of |-> node.objs[2], t_min |-> t_min, t_max |-> t_max]>>
         ELSE <<[of |-> node.kids[1], t_min |-> t_min, t_max |-> t_max],
                [of |-> node.kids[2], t_min |-> t_min, t_max |-> t_max]>>
    ELSE <<>>

-----------------------------------------------------------------------------
(* SpecBVH: a list is filled, a BVH is built over it, rays are cast *)

\* The rectangles a list is filled from: XYRect, XZRect and YZRect values
Shapes ==
    { AARect(1, 2, 0, 1000, 0, 1000, 0, 0),
      AARect(1, 2, 0, 1000, 0, 1000, 2000, 1),
      AARect(1, 3, 0, 1000, 0, 1000, 0, 2),
      AARect(2, 3, 0, 1000, 0, 1000, 1000, 3),
      AARect(1, 2, 200, 400, 0, 1000, 1000, 5),
      FlipNormals(AARect(1, 3, 0, 1000, 0, 1000, 1000, 4)) }

RayOrigins ==
    { <<-1000, 0, -1000>>, <<500, 500, -1000>>, <<500, 500, 1000>>,
      <<-1000, 500, 500>>, <<500, 500, 0>> }
RayDirs ==
    { <<1000, 1000, 1000>>, <<0, 0, 1000>>, <<0, 0, -1000>>, <<1000, 0, 0>>,
      <<1000, 0, 1000>>, <<0, -1000, 0>> }
Rays == {[origin |-> o, dir |-> d] : o \in RayOrigins, d \in RayDirs}

\* [t_min, t_max] of a query, in thousandths; <<1, 5000>> is [0.001, 5.0]
Intervals == { <<1, 5000>>, <<1000, 3000>>, <<1, 1000>> }

NoQuery == [asked |-> FALSE]

InitBVH ==
    /\ list = <<>>
    /\ bvh = NoTree
    /\ bvhStatus = "none"
    /\ query = NoQuery

\* world.list_mut().push(Box::new(..))
Push(s) ==
    /\ bvhStatus = "none"
    /\ Len(list) < MaxObjs
    /\ list' = Append(list, s)
    /\ UNCHANGED <<bvh, bvhStatus, query>>
    /\ UNCHANGED <<varsScene, varsColor, varsRender, varsPool, varsCalls>>

\* BVHNode::new(&mut list)
BVHNew ==
    /\ bvhStatus = "none"
    /\ \E res \in new_helper(list, 0) :
          /\ bvhStatus' = IF res.overflow THEN "overflow" ELSE "built"
          /\ bvh' = res.node
          /\ list' = res.list
    /\ UNCHANGED query
    /\ UNCHANGED <<varsScene, varsColor, varsRender, varsPool, varsCalls>>

\* One ray cast against the BVH root and against the list it was built over.
\* A query changes nothing of the list or the tree, so the cast recorded in
\* `query` is any cast of a render.
Query(r, iv) ==
    /\ bvhStatus = "built"
    /\ ~query.asked
    /\ query' = [asked |-> TRUE, ray |-> r, t_min |-> Fin(iv[1]), t_max |-> Fin(iv[2]),
                 bvh |-> BVHHit(bvh, r, Fin(iv[1]), Fin(iv[2])),
                 linear |-> ListHit(list, r, Fin(iv[1]), Fin(iv[2]))]
    /\ UNCHANGED <<list, bvh, bvhStatus>>
    /\ UNCHANGED <<varsScene, varsColor, varsRender, varsPool, varsCalls>>

NextBVH ==
    \/ \E s \in Shapes : Push(s)
    \/ BVHNew
    \/ \E r \in Rays, iv \in Intervals : Query(FRay(r), iv)

-----------------------------------------------------------------------------
(* Materials (material.rs).  A colour is a Vec3 of thousandths.             *)

LambertianMat(albedo) == [kind |-> "Lambertian", albedo |-> albedo, roughness |-> 0]
MetalMat(albedo, roughness) == [kind |-> "Metal", albedo |-> albedo, roughness |-> roughness]
EmissiveMat(albedo) == [kind |-> "Emissive", albedo |-> albedo, roughness |-> 0]
IsotropicMat(texture) == [kind |-> "Isotropic", albedo |-> texture, roughness |-> 0]

\* ColorEnv::new(color); ColorEnv::default() is the colour zero
ColorEnv(color) == [kind |-> "ColorEnv", color |-> color]
ColorEnvDefault == ColorEnv(<<0, 0, 0>>)

-----------------------------------------------------------------------------
(* The scene builder (scene.rs) and triangle meshes (objects/mesh.rs)       *)

\* Sphere::new(radius, material): material is any usize the caller passes
Sphere(radius, material) ==
    [kind |-> "Sphere", radius |-> radius, material |-> material, inner |-> <<>>]
\* ConstantMedium::from_boxed(obj, density, material)
ConstantMedium(obj, density, material) ==
    [kind |-> "ConstantMedium", radius |-> density, material |-> material,
     inner |-> <<obj>>]

\* RenderObject::new(obj).  A rotation is held as the matrix that
\* Rotor3::into_matrix makes of it; Rotor3::identity() is the identity matrix
RenderObjectNew(obj) ==
    [obj |-> obj, position |-> <<0, 0, 0>>,
     rotation |-> <<<<1000, 0, 0>>, <<0, 1000, 0>>, <<0, 0, 1000>>>>,
     flip_normals |-> FALSE]

\* Option<Vec<_>> of a mesh, by length: None, or Some of that many entries
None == -1

\* TriangleMesh::new(verts, indicies, normals, uvs, material): the vertex,
\* normal and uv arrays by their lengths, the index array in full
TriangleMeshNew(verts, indicies, normals, uvs, material) ==
    IF normals # None /\ normals # verts
    THEN [ok |-> FALSE, err |-> "normals.len() must equal verts.len()"]
    ELSE IF uvs # None /\ uvs # verts
    THEN [ok |-> FALSE, err |-> "uvs.len() must equal verts.len()"]
    ELSE [ok |-> TRUE,
          mesh |-> [verts |-> verts, indicies |-> indicies, normals |-> normals,
                    uvs |-> uvs, material |-> material]]

\* TriangleMesh::num_tris
num_tris(mesh) == Len(mesh.indicies) \div 3

\* TriangleMesh::get_triangle_verts(idx) indexes verts by three entries of
\* indicies: true when one of the slice indexings is out of bounds
GetTriangleVertsPanics(mesh, idx) ==
    \E j \in 0..2 :
        \/ 3 * idx + j >= Len(mesh.indicies)
        \/ mesh.indicies[3 * idx + j + 1] >= mesh.verts

\* Scene::new()
SceneNew ==
    [render_objects |-> <<>>, materials |-> <<>>, meshes |-> <<>>,
     environment |-> ColorEnvDefault]

\* a push that puts the new material first, moving the others up by one
PushMaterialFront(materials, mat) == <<mat>> \o materials

\* Vec::push on the material pool
PushMaterial(materials, mat) == Append(materials, mat)

\* Scene::add_material: the scene after the push, and the index returned
add_material(sc, mat) ==
    LET pool == PushMaterial(sc.materials, mat)
    IN [scene |-> [sc EXCEPT !.materials = pool], idx |-> Len(pool) - 1]

\* Scene::add_object
add_object(sc, obj) ==
    [scene |-> [sc EXCEPT !.render_objects = Append(sc.render_objects, obj)],
     idx |-> Len(sc.render_objects)]

\* Scene::add_volume
add_volume(sc, obj, density, texture) ==
    LET m == add_material(sc, IsotropicMat(texture))
        ro == [obj EXCEPT !.obj = ConstantMedium(obj.obj, density, m.idx)]
    IN [scene |-> add_object(m.scene, ro).scene, idx |-> add_object(m.scene, ro).idx,
        mat |-> m.idx]

\* Scene::get_material / SceneInternal::get_material: Vec indexing, which
\* panics on an index that is not below the length
GetMaterialPanics(materials, idx) == idx >= Len(materials)
get_material(materials, idx) == materials[idx + 1]

\* Sphere::bounding_box
SphereBox(s) ==
    [min |-> <<-s.radius, -s.radius, -s.radius>>, max |-> <<s.radius, s.radius, s.radius>>]

\* Disk::bounding_box
DiskBox(s) == [min |-> <<-s.radius, 0, s.radius>>, max |-> <<-s.radius, 1, s.radius>>]

\* dyn Hitable dispatch of bounding_box for the shapes of a scene;
\* ConstantMedium::bounding_box is the box of the object it fills
RECURSIVE ShapeBox(_)
ShapeBox(s) ==
    IF "kind" \notin DOMAIN s THEN ObjBox(s)
    ELSE IF s.kind = "Disk" THEN DiskBox(s)
    ELSE IF s.kind = "ConstantMedium" THEN ShapeBox(s.inner[1])
    ELSE SphereBox(s)

\* Mat3 * Vec3, the matrix given by its rows
MatVec(m, v) == <<VDot(m[1], v), VDot(m[2], v), VDot(m[3], v)>>

\* `cos_trace < 0.999`: whether a rotation matrix counts as a rotation
IsSignificant(m) == Quot(m[1][1] + m[2][2] + m[3][3] - 1000, 2) < 999

\* RenderObjectInternal::update_bounding_box: the aabb cached for an object
\* whose own box is bbox: the box of the 8 rotated corners if the rotation
\* is significant, else bbox itself, then translated
update_bounding_box(bbox, rotation_mat, position) ==
    LET corners == {MatVec(rotation_mat, <<x, y, z>>) :
                       x \in {bbox.min[1], bbox.max[1]},
                       y \in {bbox.min[2], bbox.max[2]},
                       z \in {bbox.min[3], bbox.max[3]}}
        lo(c) == CHOOSE a \in {p[c] : p \in corners} : \A p \in corners : a <= p[c]
        hi(c) == CHOOSE a \in {p[c] : p \in corners} : \A p \in corners : a >= p[c]
        rotated_aabb == IF IsSignificant(rotation_mat)
                        THEN [min |-> <<lo(1), lo(2), lo(3)>>, max |-> <<hi(1), hi(2), hi(3)>>]
                        ELSE bbox
    IN [min |-> VAdd(rotated_aabb.min, position), max |-> VAdd(rotated_aabb.max, position)]

\* Mat3::identity() and the transpose of a matrix
Identity3 == <<<<1000, 0, 0>>, <<0, 1000, 0>>, <<0, 0, 1000>>>>
Transposed(m) ==
    <<<<m[1][1], m[2][1], m[3][1]>>,
      <<m[1][2], m[2][2], m[3][2]>>,
      <<m[1][3], m[2][3], m[3][3]>>>>

\* From<RenderObject> for RenderObjectInternal: the matrices of the rotation
\* and of the reversed rotation, and the aabb update_bounding_box computes
\* from the box of the shape
RenderObjectInto(ro) ==
    [obj |-> ro.obj, position |-> ro.position, rotation_mat |-> ro.rotation,
     inv_rotation_mat |-> Transposed(ro.rotation), flip_normals |-> ro.flip_normals,
     mesh |-> <<>>,
     aabb |-> update_bounding_box(ShapeBox(ro.obj), ro.rotation, ro.position)]

\* Aggregate::build_bvh of a mesh and bounding_box() of what it returns.
\* bvh::Aggregate is not among the sources: the BVH over the triangles of
\* the mesh and its box are kept as the terms that name them, and nothing
\* is said about the tree or the corners of the box
build_bvh(mesh) ==
    [kind |-> "MeshBVH", radius |-> 0, material |-> mesh.material, inner |-> <<>>]
MeshBVHBox(obj, mesh) == <<"bounding_box", obj, mesh>>

\* The RenderObjectInternal the conversion makes of a mesh: obj is the BVH
\* build_bvh makes of the mesh, aabb what obj.bounding_box() returns
MeshInto(mesh) ==
    [obj |-> build_bvh(mesh), position |-> <<0, 0, 0>>, rotation_mat |-> Identity3,
     inv_rotation_mat |-> Identity3, flip_normals |-> FALSE, mesh |-> <<mesh>>,
     aabb |-> MeshBVHBox(build_bvh(mesh), mesh)]

\* a conversion that puts the meshes before the render objects
SceneIntoMeshesFirst(sc) ==
    [render_objects |->
         [i \in 1..Len(sc.meshes) |-> MeshInto(sc.meshes[i])]
         \o [i \in 1..Len(sc.render_objects) |-> RenderObjectInto(sc.render_objects[i])],
     materials |-> sc.materials,
     environment |-> sc.environment,
     made |-> TRUE]

\* From<Scene> for SceneInternal
SceneInto(sc) ==
    [render_objects |->
         [i \in 1..Len(sc.render_objects) |-> RenderObjectInto(sc.render_objects[i])]
         \o [i \in 1..Len(sc.meshes) |-> MeshInto(sc.meshes[i])],
     materials |-> sc.materials,
     environment |-> sc.environment,
     made |-> TRUE]

\* SceneInternal::bounding_box ends in result.expect(..), which panics when
\* the scene has no render objects
SceneBoundingBoxPanics(si) == Len(si.render_objects) = 0

NoInternal ==
    [render_objects |-> <<>>, materials |-> <<>>, environment |-> ColorEnvDefault,
     made |-> FALSE]
NoLookup == [done |-> FALSE]

MaterialChoices ==
    { LambertianMat(<<500, 500, 500>>), EmissiveMat(<<4000, 4000, 4000>>) }
EnvChoices == { ColorEnv(<<500, 700, 1000>>) }
\* the arguments of TriangleMesh::new tried: three vertices throughout
MeshArgChoices ==
    { [indicies |-> ix, normals |-> n] :
        ix \in { <<0, 1, 2>>, <<0, 1, 3>>, <<0, 1>> },
        n \in { None, 2 } }

InitScene ==
    /\ scene = SceneNew
    /\ internal = NoInternal
    /\ handles = {}
    /\ scenePhase = "build"
    /\ lookup = NoLookup

\* let idx = scene.add_material(mat)
AddMaterial(mat) ==
    /\ scenePhase = "build"
    /\ Len(scene.materials) < MaxMaterials
    /\ LET res == add_material(scene, mat)
       IN /\ scene' = res.scene
          /\ handles' = handles \cup {[idx |-> res.idx, mat |-> mat]}
    /\ UNCHANGED <<internal, scenePhase, lookup>>
    /\ UNCHANGED <<varsBVH, varsColor, varsRender, varsPool, varsCalls>>

\* scene.add_object(RenderObject::new(Sphere::new(1., material))), material
\* being an index add_material has returned or the first it has not
AddObject(material) ==
    /\ scenePhase = "build"
    /\ material <= Len(scene.materials)
    /\ Len(scene.render_objects) < MaxSceneObjs
    /\ scene' = add_object(scene, RenderObjectNew(Sphere(1000, material))).scene
    /\ UNCHANGED <<internal, handles, scenePhase, lookup>>
    /\ UNCHANGED <<varsBVH, varsColor, varsRender, varsPool, varsCalls>>

\* scene.add_volume(RenderObject::new(Sphere::new(1., material)), density, texture),
\* with the same choice of material
AddVolume(material, texture) ==
    /\ scenePhase = "build"
    /\ material <= Len(scene.materials)
    /\ Len(scene.render_objects) < MaxSceneObjs
    /\ Len(scene.materials) < MaxMaterials
    /\ LET res == add_volume(scene, RenderObjectNew(Sphere(1000, material)), 10, texture)
       IN /\ scene' = res.scene
          /\ handles' = handles \cup {[idx |-> res.mat, mat |-> IsotropicMat(texture)]}
    /\ UNCHANGED <<internal, scenePhase, lookup>>
    /\ UNCHANGED <<varsBVH, varsColor, varsRender, varsPool, varsCalls>>

\* scene.add_mesh(TriangleMesh::new(verts, indicies, normals, None, material).unwrap()):
\* a mesh is added only when its construction returned Ok
AddMesh(args, material) ==
    /\ scenePhase = "build"
    /\ Len(scene.meshes) < MaxMeshes
    /\ LET res == TriangleMeshNew(3, args.indicies, args.normals, None, material)
       IN /\ res.ok
          /\ scene' = [scene EXCEPT !.meshes = Append(scene.meshes, res.mesh)]
    /\ UNCHANGED <<internal, handles, scenePhase, lookup>>
    /\ UNCHANGED <<varsBVH, varsColor, varsRender, varsPool, varsCalls>>

\* scene.set_environment(env)
SetEnvironment(env) ==
    /\ scenePhase = "build"
    /\ scene.environment # env
    /\ scene' = [scene EXCEPT !.environment = env]
    /\ UNCHANGED <<internal, handles, scenePhase, lookup>>
    /\ UNCHANGED <<varsBVH, varsColor, varsRender, varsPool, varsCalls>>

\* The render starts: SceneInternal::from(scene)
Convert ==
    /\ scenePhase = "build"
    /\ scenePhase' = "render"
    /\ internal' = SceneInto(scene)
    /\ UNCHANGED <<scene, handles, lookup>>
    /\ UNCHANGED <<varsBVH, varsColor, varsRender, varsPool, varsCalls>>

\* The render asks the scene for its bounding box.  The SceneInternal does
\* not change during a render, so one recorded step stands for any of them.
SceneBoundingBox ==
    /\ scenePhase = "render"
    /\ ~lookup.done
    /\ IF SceneBoundingBoxPanics(internal)
       THEN /\ scenePhase' = "panicked"
            /\ UNCHANGED lookup
       ELSE /\ lookup' = [done |-> TRUE, what |-> "bounding_box"]
            /\ UNCHANGED scenePhase
    /\ UNCHANGED <<scene, internal, handles>>
    /\ UNCHANGED <<varsBVH, varsColor, varsRender, varsPool, varsCalls>>

\* A ray hit render object i: the hit carries the object's material handle,
\* and the integrator looks the material up
HitMaterial(i) ==
    /\ scenePhase = "render"
    /\ ~lookup.done
    /\ i \in 1..Len(internal.render_objects)
    /\ LET idx == internal.render_objects[i].obj.material
       IN IF GetMaterialPanics(internal.materials, idx)
          THEN /\ scenePhase' = "panicked"
               /\ UNCHANGED lookup
          ELSE /\ lookup' = [done |-> TRUE, what |-> "get_material", idx |-> idx,
                             mat |-> get_material(internal.materials, idx)]
               /\ UNCHANGED scenePhase
    /\ UNCHANGED <<scene, internal, handles>>
    /\ UNCHANGED <<varsBVH, varsColor, varsRender, varsPool, varsCalls>>

\* A ray is tested against triangle k of the mesh of render object i
TriangleVerts(i, k) ==
    /\ scenePhase = "render"
    /\ ~lookup.done
    /\ i \in 1..Len(internal.render_objects)
    /\ internal.render_objects[i].mesh # <<>>
    /\ k < num_tris(internal.render_objects[i].mesh[1])
    /\ IF GetTriangleVertsPanics(internal.render_objects[i].mesh[1], k)
       THEN /\ scenePhase' = "panicked"
            /\ UNCHANGED lookup
       ELSE /\ lookup' = [done |-> TRUE, what |-> "get_triangle_verts", idx |-> k]
            /\ UNCHANGED scenePhase
    /\ UNCHANGED <<scene, internal, handles>>
    /\ UNCHANGED <<varsBVH, varsColor, varsRender, varsPool, varsCalls>>

NextScene ==
    \/ \E mat \in MaterialChoices : AddMaterial(mat)
    \/ \E m \in 0..MaxMaterials : AddObject(m)
    \/ \E m \in 0..MaxMaterials : AddVolume(m, <<500, 500, 500>>)
    \/ \E args \in MeshArgChoices : AddMesh(args, 0)
    \/ \E env \in EnvChoices : SetEnvironment(env)
    \/ Convert
    \/ SceneBoundingBox
    \/ \E i \in 1..(MaxSceneObjs + MaxMeshes) : HitMaterial(i)
    \/ \E i \in 1..(MaxSceneObjs + MaxMeshes), k \in 0..1 : TriangleVerts(i, k)

-----------------------------------------------------------------------------
(* Vec3 arithmetic on thousandths, the generator, and scattering            *)
(* (util.rs, material.rs)                                                   *)

\* Ray::new
Ray(origin, dir) == [origin |-> origin, dir |-> dir]

\* The generator.  tiny_rng is a crate the program depends on and its code
\* is not among the sources; what is modelled is what is said of it: a
\* seedable, deterministic generator whose state is an integer and whose
\* floats lie in [0, 1).  It is a linear congruential generator of 8 bits
\* here, and no number it returns is claimed to be the one tiny_rng returns.
\* LcRng::new(seed)
LcRngNew(seed) == seed % 256

\* Rand::rand_f32: steps the generator; the value is one of 0, 0.25, 0.5, 0.75
rand_f32(rng) ==
    LET n == (rng * 37 + 1) % 256
    IN [rng |-> n, value |-> (n \div 64) * 250]

\* util::random_in_unit_sphere: rejection sampling in the cube [-1, 1)^3
RECURSIVE random_in_unit_sphere(_)
random_in_unit_sphere(rng) ==
    LET x == rand_f32(rng)
        y == rand_f32(x.rng)
        z == rand_f32(y.rng)
        p == <<2 * x.value - 1000, 2 * y.value - 1000, 2 * z.value - 1000>>
    IN IF VDot(p, p) < 1000 THEN [rng |-> z.rng, value |-> p]
       ELSE random_in_unit_sphere(z.rng)

\* util::reflect
reflect(v, n) == FVSub(v, FVScale(FMul(Fin(2000), FVDot(v, n)), n))

NoScatter(rng) == [some |-> FALSE, rng |-> rng]

\* MetalMat::scatter once the direction of the scattered ray is known
MetalScatter(mat, hit, rng, dir) ==
    IF FGt(FVDot(dir, F3(hit.normal)), Fin(0))
    THEN [some |-> TRUE, rng |-> rng, attenuation |-> mat.albedo,
          scattered |-> Ray(hit.point, dir)]
    ELSE NoScatter(rng)

\* Material::scatter of the four materials once the point of the unit sphere
\* is drawn; rng is the generator after the call.  The scattered ray leaves
\* from hit.point as it is, NaN included
ScatterWith(mat, r_in, hit, rng, rs) ==
    CASE mat.kind = "Lambertian" ->
             [some |-> TRUE, rng |-> rs.rng, attenuation |-> mat.albedo,
              scattered |-> Ray(hit.point,
                                FVSub(FVAdd(FVAdd(hit.point, F3(hit.normal)),
                                            F3(rs.value)),
                                      hit.point))]
      [] mat.kind = "Metal" ->
             MetalScatter(mat, hit, rs.rng,
                          FVAdd(reflect(r_in.dir, F3(hit.normal)),
                                FVScale(Fin(mat.roughness), F3(rs.value))))
      [] mat.kind = "Isotropic" ->
             [some |-> TRUE, rng |-> rs.rng, attenuation |-> mat.albedo,
              scattered |-> Ray(hit.point, F3(rs.value))]
      [] OTHER -> NoScatter(rng)

\* Material::scatter
Scatter(mat, r_in, hit, rng) == ScatterWith(mat, r_in, hit, rng, random_in_unit_sphere(rng))

\* Material::emit: zero unless the material overrides it (EmissiveMat)
Emit(mat) == IF mat.kind = "Emissive" THEN mat.albedo ELSE Zero3

\* Environment::sample of a ColorEnv
EnvSample(env, dir) == env.color

-----------------------------------------------------------------------------
(* The path-trace recursion (render.rs color)                               *)

\* `depth < 10`: whether color attempts a scatter at this depth
MayScatter(depth) == depth < 10

\* a color that drops the emitted value when the material does not scatter
ColorNoScatterZero(emit) == Zero3
\* what color returns for a hit whose material did not scatter
ColorNoScatter(emit) == emit

\* What one call of color does with the outcome of scatter: recurse on the
\* scattered ray, or return
ColorOnScatter(r, emit, result) ==
    IF result.some
    THEN [hit |-> TRUE, emit |-> emit, scatter |-> "some",
          attenuation |-> result.attenuation, scattered |-> result.scattered,
          rng |-> result.rng, value |-> Zero3]
    ELSE [hit |-> TRUE, emit |-> emit, scatter |-> "none",
          attenuation |-> Zero3, scattered |-> r, rng |-> result.rng,
          value |-> ColorNoScatter(emit)]

\* What one call of color does with the outcome h of world.hit
ColorOnHit(r, depth, rand, h) ==
    IF h.some
    THEN IF MayScatter(depth)
         THEN ColorOnScatter(r, Emit(h.hit.material),
                             Scatter(h.hit.material, r, h.hit, rand))
         ELSE [hit |-> TRUE, emit |-> Emit(h.hit.material), scatter |-> "skipped",
               attenuation |-> Zero3, scattered |-> r, rng |-> rand,
               value |-> Emit(h.hit.material)]
    ELSE [hit |-> FALSE, emit |-> Zero3, scatter |-> "miss",
          attenuation |-> Zero3, scattered |-> r, rng |-> rand, value |-> Zero3]

\* The body of one call color(r, world, depth, rand) up to its recursive
\* call: whether the ray hit, the emitted colour, what scatter did ("some",
\* "none", "skipped" at the depth cap, "miss"), the generator afterwards, and
\* either the scattered ray the call recurses on or the value it returns.
\* The ray is cast over 0.001 .. 2e9
ColorCall(r, w, depth, rand) ==
    ColorOnHit(r, depth, rand, ListHit(w, r, Fin(1), Whole(2000000000)))

\* ---- the first renderer (drawing.rs): its materials and its color, on
\* f32s ----

\* util::reflect
reflect_f32(v, n) == vec3_sub(v, vec3_scale(f32_mul(f32_of_int(2), vec3_dot(v, n)), n))

\* util::refract once uv, dt and the discriminant are known
RefractOf(uv, n, ni_over_nt, dt, disc) ==
    IF f32_gt(disc, 0)
    THEN [some |-> TRUE,
          dir |-> vec3_sub(vec3_scale(ni_over_nt, vec3_sub(uv, vec3_scale(dt, n))),
                           vec3_scale(f32_sqrt(disc), n))]
    ELSE [some |-> FALSE]

\* util::refract once uv = v.normalized() and dt = uv.dot(n) are known
RefractDt(uv, n, ni_over_nt, dt) ==
    RefractOf(uv, n, ni_over_nt, dt,
              f32_sub(f32_of_int(1),
                      f32_mul(f32_mul(ni_over_nt, ni_over_nt),
                              f32_sub(f32_of_int(1), f32_mul(dt, dt)))))
RefractUv(uv, n, ni_over_nt) == RefractDt(uv, n, ni_over_nt, vec3_dot(uv, n))

\* util::refract: the refracted direction, if the ray is not totally
\* reflected
refract(v, n, ni_over_nt) == RefractUv(vec3_normalized(v), n, ni_over_nt)

\* util::schlick once r0 is known
SchlickOf(r0, cosine) ==
    f32_add(r0, f32_mul(f32_sub(f32_of_int(1), r0), Pow5(f32_sub(f32_of_int(1), cosine))))
SchlickSquared(r0) == f32_mul(r0, r0)

\* util::schlick
schlick(cosine, ref_idx) ==
    SchlickOf(SchlickSquared(f32_div(f32_sub(f32_of_int(1), ref_idx),
                                     f32_add(f32_of_int(1), ref_idx))),
              cosine)

\* Vec3::one()
One3 == <<f32_of_int(1), f32_of_int(1), f32_of_int(1)>>

\* DielectricMat::scatter once schlick has answered: the number drawn is
\* compared with the reflectance
DielectricChoice(point, rng, reflected, refracted, reflectance) ==
    [some |-> TRUE, rng |-> rand_f32(rng).rng, attenuation |-> One3,
     scattered |-> Ray(point, IF f32_gt(F32(rand_f32(rng).value), reflectance)
                              THEN refracted.dir ELSE reflected),
     compared |-> TRUE, reflectance |-> reflectance]

\* DielectricMat::scatter once refract has answered: a number is drawn only
\* if the ray can be refracted
DielectricRefracted(point, ref_idx, rng, reflected, refracted, cosine) ==
    IF refracted.some
    THEN DielectricChoice(point, rng, reflected, refracted, schlick(cosine, ref_idx))
    ELSE [some |-> TRUE, rng |-> rng, attenuation |-> One3,
          scattered |-> Ray(point, reflected), compared |-> FALSE]

\* DielectricMat::scatter once r_in.direction().dot(hit.normal) and
\* r_in.direction().mag() are known
DielectricScatterOf(mat, r_in, hit, rng, dot, mag) ==
    IF f32_gt(dot, 0)
    THEN DielectricRefracted(hit.point, mat.ref_idx, rng,
             reflect_f32(r_in.dir, hit.normal),
             refract(r_in.dir, vec3_neg(hit.normal), mat.ref_idx),
             f32_div(f32_mul(mat.ref_idx, dot), mag))
    ELSE DielectricRefracted(hit.point, mat.ref_idx, rng,
             reflect_f32(r_in.dir, hit.normal),
             refract(r_in.dir, hit.normal, f32_div(f32_of_int(1), mat.ref_idx)),
             f32_div(f32_neg(dot), mag))

\* DielectricMat::scatter
DielectricScatter(mat, r_in, hit, rng) ==
    DielectricScatterOf(mat, r_in, hit, rng, vec3_dot(r_in.dir, hit.normal),
                        vec3_mag(r_in.dir))

\* drawing::LambertianMat::scatter once random_in_unit_sphere has answered
DrawingLambertianScatter(mat, hit, rs) ==
    [some |-> TRUE, rng |-> rs.rng, attenuation |-> mat.albedo,
     scattered |-> Ray(hit.point,
                       vec3_sub(vec3_add(vec3_add(hit.point, hit.normal), F32s(rs.value)),
                                hit.point))]

\* drawing::MetalMat::scatter once reflect has answered: it draws no random
\* number
DrawingMetalScatter(mat, hit, rng, reflected) ==
    IF f32_gt(vec3_dot(reflected, hit.normal), 0)
    THEN [some |-> TRUE, rng |-> rng, attenuation |-> mat.albedo,
          scattered |-> Ray(hit.point, reflected)]
    ELSE NoScatter(rng)

\* Material::scatter of the two materials drawing.rs defines
DrawingScatter(mat, r_in, hit, rng) ==
    IF mat.kind = "DrawingLambertian"
    THEN DrawingLambertianScatter(mat, hit, random_in_unit_sphere(rng))
    ELSE DrawingMetalScatter(mat, hit, rng, reflect_f32(r_in.dir, hit.normal))

\* MetalMat::scatter of material.rs in f32, once random_in_unit_sphere has
\* answered: `reflected + self.roughness * random_in_unit_sphere(rand)`; the
\* draws are made whatever the roughness
RoughMetalScattered(mat, hit, rng, dir) ==
    IF f32_gt(vec3_dot(dir, hit.normal), 0)
    THEN [some |-> TRUE, rng |-> rng, attenuation |-> mat.albedo,
          scattered |-> Ray(hit.point, dir)]
    ELSE NoScatter(rng)
RoughMetalScatter(mat, r_in, hit, rs) ==
    RoughMetalScattered(mat, hit, rs.rng,
        vec3_add(reflect_f32(r_in.dir, hit.normal),
                 vec3_scale(mat.roughness, F32s(rs.value))))

\* `hit.material.as_ref().scatter(r, &hit, rand)` of drawing::color, by the
\* material of the sphere hit.  main.rs takes MetalMat::new(albedo,
\* roughness) and DielectricMat from crate::drawing, where neither is
\* defined: they scatter as the materials of these names in material.rs
MaterialScatter(mat, r_in, hit, rng) ==
    IF mat.kind = "DrawingRoughMetal"
    THEN RoughMetalScatter(mat, r_in, hit, random_in_unit_sphere(rng))
    ELSE IF mat.kind = "DrawingDielectric"
    THEN DielectricScatter(mat, r_in, hit, rng)
    ELSE DrawingScatter(mat, r_in, hit, rng)

\* drawing::sky_color: white at the horizon blended into SKY_BLUE upwards
SKY_BLUE == <<F32(500), F32(700), F32(1000)>>
SKY_WHITE == <<F32(1000), F32(1000), F32(1000)>>
SkyBlend(t) ==
    vec3_add(vec3_scale(f32_sub(f32_of_int(1), t), SKY_WHITE), vec3_scale(t, SKY_BLUE))
sky_color(r) ==
    SkyBlend(f32_mul(F32(500), f32_add(vec3_normalized(r.dir)[2], f32_of_int(1))))

\* `depth < 50` of drawing::color
DrawingMayScatter(depth) == depth < 50

\* What one call of drawing::color does with the outcome of scatter
DrawingColorOnScatter(r, rand, result) ==
    IF result.some
    THEN [hit |-> TRUE, emit |-> Zero3, scatter |-> "some",
          attenuation |-> result.attenuation, scattered |-> result.scattered,
          rng |-> result.rng, value |-> Zero3]
    ELSE [hit |-> TRUE, emit |-> Zero3, scatter |-> "none",
          attenuation |-> Zero3, scattered |-> r, rng |-> result.rng, value |-> Zero3]

\* What one call of drawing::color does with the outcome h of world.hit
DrawingColorOnHit(r, depth, rand, h) ==
    IF h.some
    THEN IF DrawingMayScatter(depth)
         THEN DrawingColorOnScatter(r, rand,
                                    MaterialScatter(h.hit.material, r, h.hit, rand))
         ELSE [hit |-> TRUE, emit |-> Zero3, scatter |-> "skipped",
               attenuation |-> Zero3, scattered |-> r, rng |-> rand, value |-> Zero3]
    ELSE [hit |-> FALSE, emit |-> Zero3, scatter |-> "miss",
          attenuation |-> Zero3, scattered |-> r, rng |-> rand, value |-> sky_color(r)]

\* The body of one call of drawing::color up to its recursive call:
\* world.hit(r, 0.001, 2e9)
DrawingColorCall(r, w, depth, rand) ==
    DrawingColorOnHit(r, depth, rand,
                      DrawingListHit(w, r, F32(1), f32_of_int(2000000000)))

\* drawing::color, the calls below it included: the value returned,
\* `result.attenuation * color(..)` after a scatter, and the generator
\* afterwards
RECURSIVE drawing_color(_, _, _, _)
DrawingColorRest(c, rest) ==
    [value |-> vec3_mul(c.attenuation, rest.value), rng |-> rest.rng]
DrawingColorFrom(w, depth, c) ==
    IF c.scatter = "some"
    THEN DrawingColorRest(c, drawing_color(c.scattered, w, depth + 1, c.rng))
    ELSE [value |-> c.value, rng |-> c.rng]
drawing_color(r, w, depth, rand) ==
    DrawingColorFrom(w, depth, DrawingColorCall(r, w, depth, rand))

\* The hittables of the worlds traced: floors at y = 0 and ceilings at y = 3,
\* the ceilings facing down
ColorShapes ==
    { AARect(1, 3, -3000, 3000, -3000, 3000, 0, LambertianMat(<<500, 500, 500>>)),
      AARect(1, 3, -3000, 3000, -3000, 3000, 0, MetalMat(<<1000, 1000, 1000>>, 0)),
      FlipNormals(AARect(1, 3, -3000, 3000, -3000, 3000, 3000,
                         EmissiveMat(<<4000, 4000, 4000>>))),
      FlipNormals(AARect(1, 3, -3000, 3000, -3000, 3000, 3000,
                         MetalMat(<<500, 500, 500>>, 0))),
      FlipNormals(AARect(1, 3, -3000, 3000, -3000, 3000, 3000,
                         LambertianMat(<<1000, 500, 0>>))) }

\* The camera rays traced: from between the floors and the ceilings, from
\* beside them, from inside the plane of the floors (y = 0), and one from
\* 2100 above that reaches the floors at t = 2.1e6
ColorRays ==
    { Ray(F3(o), F3(d)) :
        o \in { <<0, 1500, 0>>, <<6000, 1500, 0>>, <<0, 0, 0>> },
        d \in { <<0, -1000, 0>>, <<0, 1000, 0>>, <<500, 1000, 0>>,
                <<1000, 0, 0>>, <<-1000, -500, 500>> } }
    \cup { Ray(F3(<<0, 2100000, 0>>), F3(<<0, -1, 0>>)) }

\* The spheres of the worlds drawing::color traces: two mirrors facing each
\* other along x, a diffuse sphere below
DrawingSpheres ==
    { DrawingSphere(F32s(<<3000, 0, 0>>), f32_of_int(1),
                    DrawingMetalMat(F32s(<<1000, 1000, 1000>>))),
      DrawingSphere(F32s(<<-3000, 0, 0>>), f32_of_int(1),
                    DrawingMetalMat(F32s(<<500, 500, 500>>))),
      DrawingSphere(F32s(<<0, -3000, 0>>), f32_of_int(1),
                    DrawingLambertianMat(F32s(<<500, 500, 500>>))) }

DrawingRays ==
    { Ray(Zero3, F32s(d)) :
        d \in { <<1000, 0, 0>>, <<-1000, 0, 0>>, <<0, -1000, 0>>,
                <<0, 1000, 0>>, <<1000, -1000, 0>> } }

IsDrawingWorld(w) == \A i \in 1..Len(w) : "center" \in DOMAIN w[i]
IsRenderWorld(w) == \A i \in 1..Len(w) : "center" \notin DOMAIN w[i]

\* No trace yet.  A trace is one call color(r, world, 0, rand) from a
\* camera ray: `by` names the function ("render" for render.rs, "drawing" for
\* drawing.rs), pc where it stands, ray, depth and rng the arguments of the
\* innermost call, log one entry per call made so far, in call order, and
\* ret the number of calls that have returned
NoTrace == [asked |-> FALSE, pc |-> "none"]

InitColor ==
    /\ world = <<>>
    /\ environment = ColorEnvDefault
    /\ trace = NoTrace

\* world.list_mut().push(..)
WorldPush(s) ==
    /\ ~trace.asked
    /\ IsRenderWorld(world)
    /\ Len(world) < MaxWorld
    /\ world' = Append(world, s)
    /\ UNCHANGED <<environment, trace>>
    /\ UNCHANGED <<varsBVH, varsScene, varsRender, varsPool, varsCalls>>

\* drawing.rs: world.list_mut().push(Box::new(Sphere::new(..)))
DrawingWorldPush(s) ==
    /\ ~trace.asked
    /\ IsDrawingWorld(world)
    /\ Len(world) < MaxWorld
    /\ world' = Append(world, s)
    /\ UNCHANGED <<environment, trace>>
    /\ UNCHANGED <<varsBVH, varsScene, varsRender, varsPool, varsCalls>>

\* set_environment(env)
WorldEnvironment(env) ==
    /\ ~trace.asked
    /\ environment # env
    /\ environment' = env
    /\ UNCHANGED <<world, trace>>
    /\ UNCHANGED <<varsBVH, varsScene, varsRender, varsPool, varsCalls>>

\* The renderer calls color(&ray, &world, 0, &mut rand) for a camera ray
Trace(by, r, seed) ==
    /\ ~trace.asked
    /\ IF by = "render" THEN IsRenderWorld(world) ELSE IsDrawingWorld(world)
    /\ trace' = [asked |-> TRUE, by |-> by, pc |-> "call", ray |-> r, depth |-> 0,
                 rng |-> LcRngNew(seed), log |-> <<>>, ret |-> 0, value |-> Zero3]
    /\ UNCHANGED <<world, environment>>
    /\ UNCHANGED <<varsBVH, varsScene, varsRender, varsPool, varsCalls>>

\* The trace after the call it stands at has run up to its recursive call
\* (c.scatter = "some") or to its return
TraceEntered(t, c) ==
    IF c.scatter = "some"
    THEN [t EXCEPT !.ray = c.scattered, !.depth = t.depth + 1, !.rng = c.rng,
                   !.log = Append(t.log, [depth |-> t.depth, ray |-> t.ray,
                                          hit |-> c.hit, emit |-> c.emit,
                                          scatter |-> c.scatter,
                                          attenuation |-> c.attenuation,
                                          value |-> c.value])]
    ELSE [t EXCEPT !.rng = c.rng, !.value = c.value, !.ret = 1,
                   !.pc = IF t.depth = 0 THEN "done" ELSE "return",
                   !.log = Append(t.log, [depth |-> t.depth, ray |-> t.ray,
                                          hit |-> c.hit, emit |-> c.emit,
                                          scatter |-> c.scatter,
                                          attenuation |-> c.attenuation,
                                          value |-> c.value])]

\* One call of color runs up to its recursive call, or to its return when it
\* makes none
ColorEnter ==
    /\ trace.pc = "call"
    /\ trace' = TraceEntered(trace,
                   IF trace.by = "render"
                   THEN ColorCall(trace.ray, world, trace.depth, trace.rng)
                   ELSE DrawingColorCall(trace.ray, world, trace.depth, trace.rng))
    /\ UNCHANGED <<world, environment>>
    /\ UNCHANGED <<varsBVH, varsScene, varsRender, varsPool, varsCalls>>

\* The innermost call still waiting for its recursive call gets the value
\* and returns its own: `emit + result.attenuation * color(..)` in render.rs,
\* `result.attenuation * color(..)` in drawing.rs
ColorReturn ==
    /\ trace.pc = "return"
    /\ LET i == Len(trace.log) - trace.ret
           e == trace.log[i]
           v == IF trace.by = "render"
                THEN VAdd(e.emit, VMul(e.attenuation, trace.value))
                ELSE vec3_mul(e.attenuation, trace.value)
       IN trace' = [trace EXCEPT !.value = v, !.log[i].value = v,
                                 !.ret = trace.ret + 1,
                                 !.pc = IF i = 1 THEN "done" ELSE "return"]
    /\ UNCHANGED <<world, environment>>
    /\ UNCHANGED <<varsBVH, varsScene, varsRender, varsPool, varsCalls>>

NextColor ==
    \/ \E s \in ColorShapes : WorldPush(s)
    \/ \E s \in DrawingSpheres : DrawingWorldPush(s)
    \/ \E env \in EnvChoices : WorldEnvironment(env)
    \/ \E r \in ColorRays, seed \in 0..MaxSeed : Trace("render", r, seed)
    \/ \E r \in DrawingRays, seed \in 0..MaxSeed : Trace("drawing", r, seed)
    \/ ColorEnter
    \/ ColorReturn

-----------------------------------------------------------------------------
(* The binary's render loop (main.rs) *)

\* `let seed: u64 = 0;` of main, and a seed read off the clock in its place:
\* another generator on every run
seed_from_clock == clock
seed == 0

\* n calls of rand_f32 in a row: the values drawn, in order, and the
\* generator after them
RECURSIVE rand_f32s(_, _)
rand_f32s(rng, n) ==
    IF n = 0 THEN [rng |-> rng, values |-> <<>>]
    ELSE LET first == rand_f32(rng)
             rest == rand_f32s(first.rng, n - 1)
         IN [rng |-> rest.rng, values |-> <<first.value>> \o rest.values]

\* DielectricMat::new(ref_idx)
DrawingDielectricMat(ref_idx) ==
    [kind |-> "DrawingDielectric", albedo |-> One3, roughness |-> 0, ref_idx |-> ref_idx]

\* The pairs (x, y) of `for x in -11..11 { for y in -11..11 {`, in loop order
GridCells ==
    [k \in 1..(4 * GridHalf * GridHalf) |->
        <<((k - 1) \div (2 * GridHalf)) - GridHalf, ((k - 1) % (2 * GridHalf)) - GridHalf>>]

\* The small sphere of random_scene at center: the material picked by the
\* draw `choice`, made of the draws d that follow it; the fourth draw of a
\* metal is its roughness, `0.5 * rand.rand_f32()`
RandomSphere(center, choice, d) ==
    IF choice < 800
    THEN DrawingSphere(center, F32(200), DrawingLambertianMat(
             <<f32_mul(F32(d[1]), F32(d[2])), f32_mul(F32(d[3]), F32(d[4])),
               f32_mul(F32(d[5]), F32(d[6]))>>))
    ELSE IF choice < 950
    THEN DrawingSphere(center, F32(200), DrawingRoughMetalMat(
             <<f32_mul(F32(500), f32_add(f32_of_int(1), F32(d[1]))),
               f32_mul(F32(500), f32_add(f32_of_int(1), F32(d[2]))),
               f32_mul(F32(500), f32_add(f32_of_int(1), F32(d[3])))>>,
             f32_mul(F32(500), F32(d[4]))))
    ELSE DrawingSphere(center, F32(200), DrawingDielectricMat(F32(1500)))

\* Vec3::new(x as f32 + 0.9*rand.rand_f32(), 0.2, y as f32 + 0.9*rand.rand_f32())
GridCenter(cell, d) ==
    <<f32_add(f32_of_int(cell[1]), f32_mul(F32(900), F32(d[1]))), F32(200),
      f32_add(f32_of_int(cell[2]), f32_mul(F32(900), F32(d[2])))>>

\* One round of the inner loop of random_scene, for the cell k, once the
\* centre is known: one draw for the choice of material, then the draws of
\* the material
RECURSIVE random_scene_grid(_, _, _)
random_scene_cell(k, w, d, center) ==
    LET choice == rand_f32(d.rng)
        m == rand_f32s(choice.rng, IF choice.value < 800 THEN 6
                                   ELSE IF choice.value < 950 THEN 4 ELSE 0)
    IN IF f32_gt(vec3_mag(vec3_sub(center, <<f32_of_int(4), F32(200), F32(900)>>)),
                 F32(900))
       THEN random_scene_grid(k + 1,
                Append(w, RandomSphere(center, choice.value, m.values)), m.rng)
       ELSE random_scene_grid(k + 1, w, d.rng)

\* The two nested loops of random_scene from cell k on: two draws for the
\* centre of each cell
random_scene_grid(k, w, rand) ==
    IF k > Len(GridCells) THEN [world |-> w, rng |-> rand]
    ELSE random_scene_cell(k, w, rand_f32s(rand, 2),
                           GridCenter(GridCells[k], rand_f32s(rand, 2).values))

\* random_scene(rand): the ground sphere, the grid of small spheres, the
\* three large spheres; rng is the generator it leaves
random_scene(rand) ==
    LET grid == random_scene_grid(1,
                    <<DrawingSphere(<<0, f32_of_int(-1001), f32_of_int(-1)>>,
                                    f32_of_int(1000),
                                    DrawingLambertianMat(F32s(<<500, 500, 500>>)))>>,
                    rand)
    IN [rng |-> grid.rng,
        world |-> grid.world \o
            << DrawingSphere(F32s(<<0, 1000, 0>>), f32_of_int(1),
                             DrawingDielectricMat(F32(1500))),
               DrawingSphere(F32s(<<-4000, 1000, 0>>), f32_of_int(1),
                             DrawingLambertianMat(F32s(<<400, 200, 100>>))),
               DrawingSphere(F32s(<<4000, 1000, 0>>), f32_of_int(1),
                             DrawingRoughMetalMat(F32s(<<700, 600, 500>>), 0)) >>]

\* std::f32::consts::PI
PI == 1078530011

\* Camera::new once w, u and the two half extents are known
CameraOf(cam_pos, aperture, focus_dist, w, u, v, half_width, half_height) ==
    [position |-> cam_pos,
     horizontal |-> vec3_scale(f32_mul(f32_mul(f32_of_int(2), half_width), focus_dist), u),
     vertical |-> vec3_scale(f32_mul(f32_mul(f32_of_int(2), half_height), focus_dist), v),
     lower_left |-> vec3_sub(vec3_sub(vec3_sub(cam_pos,
                                 vec3_scale(f32_mul(half_width, focus_dist), u)),
                                 vec3_scale(f32_mul(half_height, focus_dist), v)),
                             vec3_scale(focus_dist, w)),
     u |-> u, v |-> v, lens_radius |-> f32_div(aperture, f32_of_int(2))]
CameraHalf(cam_pos, aperture, focus_dist, w, u, half_height, width, height) ==
    CameraOf(cam_pos, aperture, focus_dist, w, u, vec3_cross(w, u),
             f32_div(f32_mul(half_height, f32_of_int(width)), f32_of_int(height)),
             half_height)
CameraAxes(cam_pos, vfov, aperture, focus_dist, w, width, height) ==
    CameraHalf(cam_pos, aperture, focus_dist, w,
               vec3_normalized(vec3_cross(<<0, f32_of_int(1), 0>>, w)),
               f32_tan(f32_div(f32_div(f32_mul(vfov, PI), f32_of_int(180)), f32_of_int(2))),
               width, height)

\* Camera::new
CameraNew(cam_pos, look_at, vfov, aperture, focus_dist, width, height) ==
    CameraAxes(cam_pos, vfov, aperture, focus_dist,
               vec3_normalized(vec3_sub(cam_pos, look_at)), width, height)

\* The camera of main: cam_pos (13, 2, 3), look_at the origin, a field of
\* view of 20 degrees, an aperture of 0.1, focused on look_at.  main.rs
\* passes Vec3::unit_y() for the up vector, which Camera::new of camera.rs
\* has built in, and camera.rs takes the size of the image, WIDTH x HEIGHT
MainCameraAt(cam_pos, look_at, width, height) ==
    CameraNew(cam_pos, look_at, f32_of_int(20), F32(100),
              vec3_mag(vec3_sub(cam_pos, look_at)), width, height)
MainCamera(width, height) ==
    MainCameraAt(F32s(<<13000, 2000, 3000>>), F32s(<<0, 0, 0>>), width, height)

\* util::random_in_unit_disk: rejection sampling in the square [-1, 1)^2
RECURSIVE random_in_unit_disk(_)
random_in_unit_disk(rng) ==
    LET d == rand_f32s(rng, 2)
        p == <<2 * d.values[1] - 1000, 2 * d.values[2] - 1000, 0>>
    IN IF VDot(p, p) < 1000 THEN [rng |-> d.rng, value |-> p]
       ELSE random_in_unit_disk(d.rng)

\* Camera::ray once rd and offset are known
CameraRayOf(cam, s, t, rng, offset) ==
    [rng |-> rng,
     ray |-> Ray(vec3_add(cam.position, offset),
                 vec3_sub(vec3_sub(vec3_add(vec3_add(cam.lower_left,
                                                     vec3_scale(s, cam.horizontal)),
                                            vec3_scale(t, cam.vertical)),
                                   cam.position),
                          offset))]
CameraRayRd(cam, s, t, rng, rd) ==
    CameraRayOf(cam, s, t, rng,
                vec3_add(vec3_scale(rd[1], cam.u), vec3_scale(rd[2], cam.v)))

\* Camera::ray
CameraRay(cam, s, t, rand) ==
    CameraRayRd(cam, s, t, random_in_unit_disk(rand).rng,
                vec3_scale(cam.lens_radius, F32s(random_in_unit_disk(rand).value)))

\* a from_index that finds the row by dividing by the height
from_index_by_height(idx, width, height) == <<idx % width, height - (idx \div height)>>
\* Coord::from_index
from_index(idx, width, height) == <<idx % width, height - (idx \div width)>>

\* Coord::into_f32s_with_offset: ((x + du) / width, (y + dv) / height), of
\* the offsets du and dv as rand_f32 returns them
into_f32s_with_offset(pos, du, dv, width, height) ==
    <<f32_div(f32_add(f32_of_int(pos[1]), F32(du)), f32_of_int(width)),
      f32_div(f32_add(f32_of_int(pos[2]), F32(dv)), f32_of_int(height))>>

\* impl From<Vec3> for Color, one channel: (c * 255.99) as u8
ColorChannel(c) == f32_as_u8(f32_mul(c, f32_div(f32_of_int(25599), f32_of_int(100))))

\* impl From<Color> for u32 after impl From<Vec3> for Color
ColorU32(c) == ColorChannel(c[1]) * 65536 + ColorChannel(c[2]) * 256 + ColorChannel(c[3])

\* total_color += color(&ray, &world, 0, &mut rng), col being what color
\* returned
SampleAdd(total, col) == [total |-> vec3_add(total, col.value), rng |-> col.rng]

\* One round of `for _ in 0..SAMPLES { .. }` from the ray on
SampleRay(m, total, cr) == SampleAdd(total, drawing_color(cr.ray, m.world, 0, cr.rng))

\* `for _ in 0..SAMPLES { .. }` with n rounds to go: acc is total_color and
\* the generator; each round draws the two offsets, then the ray
RECURSIVE sample_loop(_, _, _, _)
sample_round(n, m, pos, total, rng, uv) ==
    sample_loop(n - 1, m, pos, SampleRay(m, total, CameraRay(m.camera, uv[1], uv[2], rng)))
sample_loop(n, m, pos, acc) ==
    IF n = 0 THEN acc
    ELSE sample_round(n, m, pos, acc.total, rand_f32s(acc.rng, 2).rng,
                      into_f32s_with_offset(pos, rand_f32s(acc.rng, 2).values[1],
                                            rand_f32s(acc.rng, 2).values[2],
                                            m.width, m.height))

\* total_color /= SAMPLES as f32, the square root, and the conversion to u32
PixelOf(acc) ==
    [rng |-> acc.rng,
     value |-> ColorU32(<<f32_sqrt(f32_div(acc.total[1], f32_of_int(SAMPLES))),
                          f32_sqrt(f32_div(acc.total[2], f32_of_int(SAMPLES))),
                          f32_sqrt(f32_div(acc.total[3], f32_of_int(SAMPLES)))>>)]

\* The closure of for_each for the pixel idx, entered with the generator
\* rng: the u32 it writes and the generator it leaves
Pixel(m, idx, rng) ==
    PixelOf(sample_loop(SAMPLES, m, from_index(idx, m.width, m.height),
                        [total |-> Zero3, rng |-> rng]))

\* the index enumerate() yields after idx, skipping one
EnumerateSkip(idx) == idx + 2
\* buffer.iter_mut().enumerate(): the index yielded after idx
EnumerateNext(idx) == idx + 1

\* Before main runs: none of its locals exists
NoMain == [pc |-> "start"]
NoConfig == [width |-> 0]

InitRender ==
    /\ config = NoConfig
    /\ main = NoMain
    /\ run = 1
    /\ kept = NoMain
    /\ clock = 0

\* The program is built for a buffer size: WIDTH and HEIGHT
Configure(width, height) ==
    /\ config = NoConfig
    /\ config' = [width |-> width, height |-> height]
    /\ UNCHANGED <<main, run, kept, clock>>
    /\ UNCHANGED <<varsBVH, varsScene, varsColor, varsPool, varsCalls>>

\* A second passes on the clock time::Instant::now() reads
Tick ==
    /\ clock < MaxClock
    /\ clock' = clock + 1
    /\ UNCHANGED <<config, main, run, kept>>
    /\ UNCHANGED <<varsBVH, varsScene, varsColor, varsPool, varsCalls>>

\* The locals of main when the render loop starts, `start` being the time
\* read after the scene is made.  written counts the writes to each slot,
\* seeded keeps the generator each pixel was entered with, stdout the lines
\* printed
MainLocals(c, now, scene_made) ==
    [pc |-> "loop", idx |-> 0, rng |-> scene_made.rng,
     buffer |-> [i \in 1..(c.width * c.height) |-> 0],
     width |-> c.width, height |-> c.height,
     camera |-> MainCamera(c.width, c.height),
     world |-> scene_made.world,
     start |-> now,
     stdout |-> <<>>,
     written |-> [i \in 1..(c.width * c.height) |-> 0],
     seeded |-> [i \in 1..(c.width * c.height) |-> 0]]

\* main up to the render loop: the buffer, the generator, the camera, the
\* scene and the time; whatever an earlier run left in the locals is
\* overwritten
MainStart ==
    /\ config # NoConfig
    /\ main.pc = "start"
    /\ main' = MainLocals(config, clock, random_scene(LcRngNew(seed)))
    /\ UNCHANGED <<config, run, kept, clock>>
    /\ UNCHANGED <<varsBVH, varsScene, varsColor, varsPool, varsCalls>>

\* `if idx % 1000 == 0 { println!("Completed {}/{}", ..) }`
Completed(m) ==
    IF m.idx % 1000 = 0
    THEN <<<<"Completed", m.idx \div 1000, (m.width * m.height) \div 1000>>>>
    ELSE <<>>

\* main after the closure has returned p for the pixel m.idx
PixelDone(m, p) ==
    [m EXCEPT !.buffer[m.idx + 1] = p.value,
              !.written[m.idx + 1] = @ + 1,
              !.seeded[m.idx + 1] = m.rng,
              !.rng = p.rng,
              !.stdout = @ \o Completed(m),
              !.idx = EnumerateNext(m.idx)]

\* One call of the closure of for_each, for the next index of the buffer
RenderPixel ==
    /\ main.pc = "loop"
    /\ main.idx < Len(main.buffer)
    /\ main' = PixelDone(main, Pixel(main, main.idx, main.rng))
    /\ UNCHANGED <<config, run, kept, clock>>
    /\ UNCHANGED <<varsBVH, varsScene, varsColor, varsPool, varsCalls>>

\* for_each returns: the buffer is complete, the time is read again and the
\* seconds the render took are printed
MainExit ==
    /\ main.pc = "loop"
    /\ main.idx >= Len(main.buffer)
    /\ main' = [main EXCEPT !.pc = "exit",
                            !.stdout = Append(@, <<"Finished", clock - main.start>>)]
    /\ UNCHANGED <<config, run, kept, clock>>
    /\ UNCHANGED <<varsBVH, varsScene, varsColor, varsPool, varsCalls>>

\* The program is run a second time on the same configuration, at whatever
\* time it is by then.  What the first run ended with is kept for
\* comparison, and its locals are left where they were
Rerun ==
    /\ main.pc = "exit"
    /\ run = 1
    /\ kept' = main
    /\ run' = 2
    /\ main' = [main EXCEPT !.pc = "start"]
    /\ UNCHANGED <<config, clock>>
    /\ UNCHANGED <<varsBVH, varsScene, varsColor, varsPool, varsCalls>>

NextRender ==
    \/ \E width \in 1..MaxWidth, height \in 1..MaxHeight : Configure(width, height)
    \/ Tick
    \/ MainStart
    \/ RenderPixel
    \/ MainExit
    \/ Rerun

-----------------------------------------------------------------------------
(* Renderer::render, its pixels shared out among the workers of a renderer.    *)
(* lib.rs re-exports render::Renderer and the examples call its render,    *)
(* but render.rs does not define it: the render is the one described for   *)
(* it.  A work-stealing pool partitions the range of pixel indices; every  *)
(* worker renders the indices of the piece it holds, each pixel with a     *)
(* generator seeded with its index; a counter of the pixels done is shared *)
(* for the progress shown.  Single-threaded, one worker walks the whole    *)
(* range, as the loop of main does.                                        *)

\* The piece <<lo, hi>> of the range holds the indices lo .. hi - 1
NoPiece == <<0, 0>>
PieceLen(p) == IF p[2] > p[1] THEN p[2] - p[1] ELSE 0
PieceMid(p) == p[1] + ((p[2] - p[1]) \div 2)

\* Before render is called
NoPool == [pc |-> "idle"]

InitPool == renderer = NoPool

\* What a render reads and never writes: the size, the camera and the world
PoolScene(width, height) ==
    [width |-> width, height |-> height, camera |-> MainCamera(width, height),
     world |-> random_scene(LcRngNew(seed)).world]

\* The colour of the pixel idx: the samples of the pixel, drawn from a
\* generator made for the pixel and seeded with its index
PoolPixel(m, idx) == Pixel(m, idx, LcRngNew(idx)).value

\* The state of a render of n pixels by `workers` workers when it starts:
\* the first worker holds the whole range and no deque holds anything.
\* colour[i] is what the pixel i - 1 comes to, which depends on nothing a
\* worker does; writers[i] lists the workers that wrote the slot i, in the
\* order of their writes
PoolLocals(width, height, multithreaded, workers, m) ==
    [pc |-> "render", width |-> width, height |-> height,
     multithreaded |-> multithreaded, workers |-> workers,
     buffer |-> [i \in 1..(width * height) |-> 0],
     colour |-> [i \in 1..(width * height) |-> PoolPixel(m, i - 1)],
     hold |-> [w \in 1..workers |-> IF w = 1 THEN <<0, width * height>> ELSE NoPiece],
     deque |-> [w \in 1..workers |-> <<>>],
     writers |-> [i \in 1..(width * height) |-> <<>>],
     progress |-> 0]

\* render is called
PoolStart(width, height, multithreaded) ==
    /\ renderer.pc = "idle"
    /\ renderer' = PoolLocals(width, height, multithreaded,
                          IF multithreaded THEN MaxWorkers ELSE 1,
                          PoolScene(width, height))
    /\ UNCHANGED <<varsBVH, varsScene, varsColor, varsRender, varsCalls>>

\* The worker w halves the piece it holds: it keeps the lower half and puts
\* the upper half at the back of its deque
PoolSplit(w) ==
    /\ renderer.pc = "render"
    /\ w <= renderer.workers
    /\ renderer.multithreaded
    /\ PieceLen(renderer.hold[w]) >= 2
    /\ renderer' = [renderer EXCEPT
           !.hold[w] = <<@[1], PieceMid(@)>>,
           !.deque[w] = Append(@, <<PieceMid(renderer.hold[w]), renderer.hold[w][2]>>)]
    /\ UNCHANGED <<varsBVH, varsScene, varsColor, varsRender, varsCalls>>

\* The worker w, done with its piece, takes the piece at the back of its
\* own deque
PoolPop(w) ==
    /\ renderer.pc = "render"
    /\ w <= renderer.workers
    /\ PieceLen(renderer.hold[w]) = 0
    /\ renderer.deque[w] # <<>>
    /\ renderer' = [renderer EXCEPT
           !.hold[w] = renderer.deque[w][Len(renderer.deque[w])],
           !.deque[w] = SubSeq(@, 1, Len(@) - 1)]
    /\ UNCHANGED <<varsBVH, varsScene, varsColor, varsRender, varsCalls>>

\* The worker w, with nothing left of its own, steals the piece at the
\* front of the deque of v
PoolSteal(w, v) ==
    /\ renderer.pc = "render"
    /\ w <= renderer.workers
    /\ v <= renderer.workers
    /\ w # v
    /\ PieceLen(renderer.hold[w]) = 0
    /\ renderer.deque[w] = <<>>
    /\ renderer.deque[v] # <<>>
    /\ renderer' = [renderer EXCEPT !.hold[w] = Head(renderer.deque[v]), !.deque[v] = Tail(@)]
    /\ UNCHANGED <<varsBVH, varsScene, varsColor, varsRender, varsCalls>>

\* The worker w renders the first pixel of the piece it holds, writes its
\* slot of the buffer and counts it on the shared counter
PoolPixelDone(p, w, idx) ==
    [p EXCEPT !.buffer[idx + 1] = p.colour[idx + 1],
              !.writers[idx + 1] = Append(@, w),
              !.progress = @ + 1,
              !.hold[w] = <<EnumerateNext(idx), @[2]>>]
PoolRenderPixel(w) ==
    /\ renderer.pc = "render"
    /\ w <= renderer.workers
    /\ PieceLen(renderer.hold[w]) >= 1
    /\ renderer' = PoolPixelDone(renderer, w, renderer.hold[w][1])
    /\ UNCHANGED <<varsBVH, varsScene, varsColor, varsRender, varsCalls>>

\* render returns: no worker holds a piece and every deque is empty
PoolDone ==
    /\ renderer.pc = "render"
    /\ \A w \in 1..renderer.workers : PieceLen(renderer.hold[w]) = 0 /\ renderer.deque[w] = <<>>
    /\ renderer' = [renderer EXCEPT !.pc = "done"]
    /\ UNCHANGED <<varsBVH, varsScene, varsColor, varsRender, varsCalls>>

NextPool ==
    \/ \E width \in 1..MaxWidth, height \in 1..MaxHeight, multithreaded \in BOOLEAN :
           PoolStart(width, height, multithreaded)
    \/ \E w \in 1..MaxWorkers : PoolSplit(w)
    \/ \E w \in 1..MaxWorkers : PoolPop(w)
    \/ \E w, v \in 1..MaxWorkers : PoolSteal(w, v)
    \/ \E w \in 1..MaxWorkers : PoolRenderPixel(w)
    \/ PoolDone

-----------------------------------------------------------------------------
(* Boxes and the shapes of a scene (aabb.rs, objects/)                      *)

\* a box that takes p0 for its min and p1 for its max as they come
from_two_points_as_given(p0, p1) == [min |-> p0, max |-> p1]
\* AABB::from_two_points: min_by_component and max_by_component of the two
from_two_points(p0, p1) ==
    [min |-> <<Min2(p0[1], p1[1]), Min2(p0[2], p1[2]), Min2(p0[3], p1[3])>>,
     max |-> <<Max2(p0[1], p1[1]), Max2(p0[2], p1[2]), Max2(p0[3], p1[3])>>]

\* a solve_quadratic that returns the larger root first
solve_quadratic_larger_first(a, b, c) ==
    LET disc == Quot(b * b, 1000) - Quot(4 * a * c, 1000)
    IN IF disc < 0 THEN <<[some |-> FALSE], [some |-> FALSE]>>
       ELSE IF disc = 0
       THEN <<[some |-> TRUE, t |-> Quot((-b) * 1000, 2 * a)], [some |-> FALSE]>>
       ELSE <<[some |-> TRUE, t |-> Quot((-b + Sqrt(disc)) * 1000, 2 * a)],
              [some |-> TRUE, t |-> Quot((-b - Sqrt(disc)) * 1000, 2 * a)]>>
\* objects::solve_quadratic: [Option<f32>; 2], for a # 0
solve_quadratic(a, b, c) ==
    LET disc == Quot(b * b, 1000) - Quot(4 * a * c, 1000)
    IN IF disc < 0 THEN <<[some |-> FALSE], [some |-> FALSE]>>
       ELSE IF disc = 0
       THEN <<[some |-> TRUE, t |-> Quot((-b) * 1000, 2 * a)], [some |-> FALSE]>>
       ELSE <<[some |-> TRUE, t |-> Quot((-b - Sqrt(disc)) * 1000, 2 * a)],
              [some |-> TRUE, t |-> Quot((-b + Sqrt(disc)) * 1000, 2 * a)]>>

\* the coefficients a, b, c Sphere::hit hands to solve_quadratic
SphereQuadratic(s, r) ==
    <<VDot(r.dir, r.dir), 2 * VDot(r.origin, r.dir),
      VDot(r.origin, r.origin) - Quot(s.radius * s.radius, 1000)>>

\* Sphere::hit from the roots on: t1 if it is inside (t_min, t_max), else t2
\* if there is one and it is inside, else None
SphereHitRoots(s, r, t_min, t_max, roots) ==
    IF ~roots[1].some THEN NoHit
    ELSE IF ~(roots[1].t < t_max[2] /\ roots[1].t > t_min[2])
            /\ ~(roots[2].some /\ roots[2].t < t_max[2] /\ roots[2].t > t_min[2])
    THEN NoHit
    ELSE LET t == IF roots[1].t < t_max[2] /\ roots[1].t > t_min[2]
                  THEN roots[1].t ELSE roots[2].t
             point == RayPoint(FRay(r), Fin(t))
         IN SomeHit([t |-> Fin(t), point |-> point,
                     normal |-> <<Quot(point[1][2] * 1000, s.radius),
                                  Quot(point[2][2] * 1000, s.radius),
                                  Quot(point[3][2] * 1000, s.radius)>>,
                     material |-> s.material])

\* Sphere::hit of objects/sphere.rs, for finite t_min and t_max
SphereHit(s, r, t_min, t_max) ==
    LET q == SphereQuadratic(s, r)
    IN SphereHitRoots(s, r, t_min, t_max, solve_quadratic(q[1], q[2], q[3]))

\* f32::MAX, above every t of the model
F32_MAX == 2000000000

\* f32::log10 of the numbers rand_f32 returns
Log10(v) ==
    CASE v = 0 -> NegInf
      [] v = 250 -> Fin(-602)
      [] v = 500 -> Fin(-301)
      [] v = 750 -> Fin(-125)

\* ConstantMedium::hit once the two boundary hits are there: the clamps, the
\* distance drawn and the hit reported.  A drawn 0 gives an infinite distance
\* and no hit.
ConstantMediumBetween(m, r, t_min, t_max, rng, rec1, rec2) ==
    LET t1 == Max2(rec1.hit.t[2], t_min)
        t2 == Min2(rec2.hit.t[2], t_max)
        mag == Sqrt(VDot(r.dir, r.dir))
        lg == Log10(rand_f32(rng).value)
        dist_inside_boundary == Quot((t2 - Max2(t1, 0)) * mag, 1000)
        hit_distance == Quot(Quot(1000 * 1000, m.radius) * (-lg[2]), 1000)
        t == Max2(t1, 0) + Quot(hit_distance * 1000, mag)
    IN IF t1 >= t2 THEN NoHit
       ELSE IF IsFin(lg) /\ hit_distance < dist_inside_boundary
       THEN SomeHit([t |-> Fin(t), point |-> RayPoint(FRay(r), Fin(t)),
                     normal |-> <<0, 1000, 0>>, material |-> m.material,
                     uv |-> <<0, 0>>])
       ELSE NoHit

\* a medium that looks for its entry hit inside the caller's interval
ConstantMediumHitWithin(m, r, t_min, t_max, rng) ==
    LET rec1 == SphereHit(m.inner[1], r, Fin(t_min), Fin(t_max))
        rec2 == IF rec1.some
                THEN SphereHit(m.inner[1], r, rec1.hit.t, Fin(F32_MAX))
                ELSE NoHit
    IN [rec1 |-> rec1, rec2 |-> rec2,
        hit |-> IF rec1.some /\ rec2.some
                THEN ConstantMediumBetween(m, r, t_min, t_max, rng, rec1, rec2)
                ELSE NoHit]

\* ConstantMedium::hit over a sphere, for finite t_min and t_max: the two
\* boundary hits rec1 and rec2 and the hit returned.  rec1.t + 0.0001 is
\* below the next thousandth after rec1.t, so a t of the model is greater
\* than it exactly when it is greater than rec1.t.
ConstantMediumHit(m, r, t_min, t_max, rng) ==
    LET rec1 == SphereHit(m.inner[1], r, Fin(-F32_MAX), Fin(F32_MAX))
        rec2 == IF rec1.some
                THEN SphereHit(m.inner[1], r, rec1.hit.t, Fin(F32_MAX))
                ELSE NoHit
    IN [rec1 |-> rec1, rec2 |-> rec2,
        hit |-> IF rec1.some /\ rec2.some
                THEN ConstantMediumBetween(m, r, t_min, t_max, rng, rec1, rec2)
                ELSE NoHit]

\* util::max_component_idx: 0, 1 or 2 for x, y or z
max_component_idx(vec) ==
    IF vec[1] > vec[2]
    THEN IF vec[3] > vec[1] THEN 2 ELSE 0
    ELSE IF vec[3] > vec[2] THEN 2 ELSE 1

\* Triangle::hit as far as the shear: the axes kx, ky, kz, the permuted
\* direction d and the shear factors sx, sy, sz
TriangleShear(dir) ==
    LET kz == max_component_idx(dir)
        kx == (kz + 1) % 3
        ky == (kx + 1) % 3
        d == <<dir[kx + 1], dir[ky + 1], dir[kz + 1]>>
    IN [kx |-> kx, ky |-> ky, kz |-> kz, d |-> d,
        sx |-> FDiv(Fin(-d[1]), Fin(d[3])),
        sy |-> FDiv(Fin(-d[2]), Fin(d[3])),
        sz |-> FDiv(Fin(1000), Fin(d[3]))]

\* Disk::new(radius, material): the whole disk, phi_max = 2 pi and
\* inner_radius = 0
Disk(radius, material) ==
    [kind |-> "Disk", radius |-> radius, material |-> material, inner |-> <<>>]

\* Disk::hit of a whole disk; phi lies in [0, 2 pi) and never exceeds phi_max
DiskHit(s, r, t_min, t_max) ==
    LET t == FDiv(Fin(-r.origin[2]), Fin(r.dir[2]))
        point == RayPoint(FRay(r), t)
        dist2 == Quot(point[1][2] * point[1][2], 1000) + Quot(point[3][2] * point[3][2], 1000)
    IN IF r.dir[2] = 0 THEN NoHit
       ELSE IF FLt(t, t_min) \/ FGt(t, t_max) THEN NoHit
       ELSE IF dist2 > Quot(s.radius * s.radius, 1000) \/ dist2 < 0 THEN NoHit
       ELSE SomeHit([t |-> t, point |-> point, normal |-> <<0, 1000, 0>>,
                     material |-> s.material])

\* dyn Hitable dispatch for the shapes of a scene
ShapeHit(s, r, t_min, t_max) ==
    IF "kind" \notin DOMAIN s THEN ObjHit(s, FRay(r), t_min, t_max)
    ELSE IF s.kind = "Disk" THEN DiskHit(s, r, t_min, t_max)
    ELSE SphereHit(s, r, t_min, t_max)

\* render_object_internet_hit: the ray is taken into the space of the object
\* (rotated back only if the rotation is significant), and the hit is
\* rotated and translated into the world; a NaN hit point stays NaN
render_object_internet_hit(obj, r, t_min, t_max) ==
    LET new_ray == IF IsSignificant(obj.rotation_mat)
                   THEN Ray(MatVec(obj.inv_rotation_mat, VSub(r.origin, obj.position)),
                            MatVec(obj.inv_rotation_mat, r.dir))
                   ELSE Ray(VSub(r.origin, obj.position), r.dir)
        h == ObjHit(obj.obj, FRay(new_ray), t_min, t_max)
        normal == MatVec(obj.rotation_mat, h.hit.normal)
    IN IF ~h.some THEN NoHit
       ELSE SomeHit([h.hit EXCEPT
                !.point = FVAdd(FMatVec(obj.rotation_mat, h.hit.point), F3(obj.position)),
                !.normal = IF obj.flip_normals THEN VSub(Zero3, normal) ELSE normal])

-----------------------------------------------------------------------------
(* SpecCalls: one function of the program is called once, on arguments     *)
(* drawn from small sets                                                    *)

NoCall == [op |-> "none"]

\* the numbers rand_f32 returns
Offsets == {rand_f32(g).value : g \in 0..255}

InitCalls == call = NoCall

\* let pos = Coord::from_index(idx, width, height);
\* let (u, v) = pos.into_f32s_with_offset(du, dv), du and dv being the two
\* numbers rand_f32 returned
CoordCall(width, height, idx, du, dv) ==
    /\ call = NoCall
    /\ call' = [op |-> "coord", width |-> width, height |-> height, idx |-> idx,
                pos |-> from_index(idx, width, height),
                uv |-> into_f32s_with_offset(from_index(idx, width, height),
                                             du, dv, width, height)]
    /\ UNCHANGED <<varsBVH, varsScene, varsColor, varsRender, varsPool>>

\* AABB::from_two_points(p0, p1)
FromTwoPointsCall(p0, p1) ==
    /\ call = NoCall
    /\ call' = [op |-> "from_two_points", p0 |-> p0, p1 |-> p1,
                box |-> from_two_points(p0, p1)]
    /\ UNCHANGED <<varsBVH, varsScene, varsColor, varsRender, varsPool>>

\* Sphere::new(radius, 0).hit(&r, t_min, t_max, rand); roots is what
\* solve_quadratic returned inside the call
SphereHitCall(radius, r, iv) ==
    /\ call = NoCall
    /\ LET s == Sphere(radius, 0)
           q == SphereQuadratic(s, r)
       IN call' = [op |-> "sphere_hit", radius |-> radius, ray |-> r,
                   t_min |-> iv[1], t_max |-> iv[2], quadratic |-> q,
                   roots |-> solve_quadratic(q[1], q[2], q[3]),
                   hit |-> SphereHit(s, r, Fin(iv[1]), Fin(iv[2]))]
    /\ UNCHANGED <<varsBVH, varsScene, varsColor, varsRender, varsPool>>

\* DielectricMat::new(ref_idx).scatter(&r_in, &hit, rand) for a hit at the
\* origin with the given normal; ref_idx, dir and normal in thousandths
DielectricCall(ref_idx, dir, normal, rng) ==
    /\ call = NoCall
    /\ call' = [op |-> "dielectric", ref_idx |-> ref_idx, dir |-> dir, normal |-> normal,
                result |-> DielectricScatter(DrawingDielectricMat(F32(ref_idx)),
                               Ray(F32s(VSub(Zero3, dir)), F32s(dir)),
                               [point |-> Zero3, normal |-> F32s(normal)],
                               rng)]
    /\ UNCHANGED <<varsBVH, varsScene, varsColor, varsRender, varsPool>>

\* The materials scatter is called on: one of each variant, the metal polished
\* and with roughness 1.0
ScatterMaterials ==
    { LambertianMat(<<800, 300, 300>>), MetalMat(<<800, 800, 800>>, 0),
      MetalMat(<<800, 800, 800>>, 1000), EmissiveMat(<<4000, 4000, 4000>>),
      IsotropicMat(<<500, 500, 500>>), DrawingDielectricMat(F32(1500)) }

\* the directions of the rays scatter is called on: four finite ones, and
\* the direction a Lambertian gives the ray it scatters from a NaN hit point
ScatterDirs ==
    { F3(d) : d \in { <<0, -1000, 0>>, <<1000, -200, 0>>, <<600, 800, 0>>,
                      <<1000, 0, 0>> } } \cup { NaN3 }

\* the f32 with the bits of a number of the exact subset
F32Of(a) == IF IsNaN(a) THEN f32_nan ELSE F32(a[2])
F32sOf(v) == <<F32Of(v[1]), F32Of(v[2]), F32Of(v[3])>>

\* mat.scatter(&r_in, &hit, rand) and mat.emit(hit.uv, &hit.point) for a hit at
\* point with the given normal, of a ray that reaches point at t = 1.  The
\* dielectric is computed on f32s: it is handed the ray and the hit as f32s
ScatterCall(mat, point, dir, normal, rng) ==
    /\ call = NoCall
    /\ LET r_in == Ray(FVSub(point, dir), dir)
           hit == [point |-> point, normal |-> normal]
       IN call' = [op |-> "scatter", mat |-> mat, point |-> point, dir |-> dir,
                   normal |-> normal, rng |-> rng,
                   result |-> IF "ref_idx" \in DOMAIN mat
                              THEN DielectricScatter(mat,
                                       Ray(F32sOf(r_in.origin), F32sOf(dir)),
                                       [point |-> F32sOf(point), normal |-> F32s(normal)],
                                       rng)
                              ELSE Scatter(mat, r_in, hit, rng),
                   emit |-> Emit(mat)]
    /\ UNCHANGED <<varsBVH, varsScene, varsColor, varsRender, varsPool>>

\* ConstantMedium::from_boxed(Sphere::new(radius, 0), density, 7)
\* .hit(&r, t_min, t_max, rand); roots is what solve_quadratic returns for the
\* sphere and the ray
ConstantMediumCall(radius, density, r, iv, rng) ==
    /\ call = NoCall
    /\ LET m == ConstantMedium(Sphere(radius, 0), density, 7)
           q == SphereQuadratic(Sphere(radius, 0), r)
       IN call' = [op |-> "constant_medium", medium |-> m, ray |-> r,
                   t_min |-> iv[1], t_max |-> iv[2], rng |-> rng,
                   roots |-> solve_quadratic(q[1], q[2], q[3]),
                   result |-> ConstantMediumHit(m, r, iv[1], iv[2], rng)]
    /\ UNCHANGED <<varsBVH, varsScene, varsColor, varsRender, varsPool>>

\* Triangle::hit of a ray with direction dir, up to the shear factors
TriangleShearCall(dir) ==
    /\ call = NoCall
    /\ call' = [op |-> "triangle_shear", dir |-> dir, shear |-> TriangleShear(dir)]
    /\ UNCHANGED <<varsBVH, varsScene, varsColor, varsRender, varsPool>>

\* shape.hit(&r, t_min, t_max, rand) and shape.bounding_box()
ShapeCall(shape, r, iv) ==
    /\ call = NoCall
    /\ call' = [op |-> "shape", shape |-> shape, ray |-> r,
                t_min |-> iv[1], t_max |-> iv[2],
                hit |-> ShapeHit(shape, r, Fin(iv[1]), Fin(iv[2])),
                box |-> ShapeBox(shape)]
    /\ UNCHANGED <<varsBVH, varsScene, varsColor, varsRender, varsPool>>

\* The rotation matrices a render object is given: none, a turn about z by
\* the angle of the 3-4-5 triangle, and a turn about z of 2.3 degrees
\* (cos 0.999, sin 0.040)
Rotations ==
    { <<<<1000, 0, 0>>, <<0, 1000, 0>>, <<0, 0, 1000>>>>,
      <<<<800, -600, 0>>, <<600, 800, 0>>, <<0, 0, 1000>>>>,
      <<<<999, -40, 0>>, <<40, 999, 0>>, <<0, 0, 1000>>>> }

\* RenderObjectInternal::from(RenderObject::new(shape).position_vec(position)
\* .rotate(..)), with .flip_normals() or without, .hit(&r, t_min, t_max, rand);
\* the inverse of a rotation matrix is its transpose
RenderObjectCall(shape, position, m, flip_normals, r, iv) ==
    /\ call = NoCall
    /\ LET obj == RenderObjectInto([obj |-> shape, position |-> position,
                                     rotation |-> m, flip_normals |-> flip_normals])
       IN call' = [op |-> "render_object", obj |-> obj, ray |-> r,
                   hit |-> render_object_internet_hit(obj, r, Fin(iv[1]), Fin(iv[2]))]
    /\ UNCHANGED <<varsBVH, varsScene, varsColor, varsRender, varsPool>>

NextCalls ==
    \/ \E shape \in Shapes \cup {Sphere(1000, 0), Sphere(2000, 0), Disk(1000, 0),
                                  Disk(2000, 0)},
          r \in Rays, iv \in Intervals :
           ShapeCall(shape, r, iv)
    \/ \E dir \in {<<x, y, z>> : x, y, z \in {-1000, 0, 500, 1000}} \ {Zero3} :
           TriangleShearCall(dir)
    \/ \E radius \in {1000, 2000}, density \in {200, 1000}, r \in Rays,
          iv \in {<<1, 5000>>, <<1000, 3000>>, <<-3000, 5000>>, <<-5000, -500>>},
          rng \in {0, 2, 4, 6} :
           ConstantMediumCall(radius, density, r, iv, rng)
    \/ \E mat \in ScatterMaterials, rng \in 0..MaxSeed, point \in {F3(Zero3), NaN3},
          dir \in ScatterDirs, normal \in {<<0, 1000, 0>>, <<0, 0, 1000>>} :
           ScatterCall(mat, point, dir, normal, rng)
    \/ \E shape \in Shapes, position \in {<<0, 0, 0>>, <<2000, -1000, 0>>},
          m \in Rotations, flip_normals \in BOOLEAN, r \in Rays :
           RenderObjectCall(shape, position, m, flip_normals, r, <<1, 5000>>)
    \/ \E ref_idx \in {500, 1500, 2000}, rng \in 0..MaxSeed,
          dir \in {<<0, -1000, 0>>, <<600, -800, 0>>, <<0, 1000, 0>>,
                   <<600, 800, 0>>, <<1000, 0, 0>>, <<0, -2000, 0>>},
          normal \in {<<0, 1000, 0>>, <<0, 0, 1000>>} :
           DielectricCall(ref_idx, dir, normal, rng)
    \/ \E p0, p1 \in {<<x, y, z>> : x, y, z \in {-1000, 0, 2000}} : FromTwoPointsCall(p0, p1)
    \/ \E radius \in {1000, 2000}, r \in Rays, iv \in Intervals : SphereHitCall(radius, r, iv)
    \/ \E width \in 1..MaxSide, height \in 1..MaxSide, du \in Offsets, dv \in Offsets :
           \E idx \in 0..(width * height - 1) : CoordCall(width, height, idx, du, dv)

-----------------------------------------------------------------------------
(* Specifications *)

Init == InitBVH /\ InitScene /\ InitColor /\ InitRender /\ InitPool /\ InitCalls

SpecBVH == Init /\ [][NextBVH]_vars
SpecScene == Init /\ [][NextScene]_vars
SpecColor == Init /\ [][NextColor]_vars
SpecRender == Init /\ [][NextRender]_vars
SpecPool == Init /\ [][NextPool]_vars
SpecCalls == Init /\ [][NextCalls]_vars

Next == NextBVH \/ NextScene \/ NextColor \/ NextRender \/ NextPool \/ NextCalls
Spec == Init /\ [][Next]_vars

-----------------------------------------------------------------------------
(* Claims about the BVH *)

\* C1: for every list, ray and interval the BVH query reports a hit exactly
\* when the linear scan over the same list reports one, and then with the
\* same t.
C1_BVHAgreesWithLinear ==
    query.asked =>
        /\ query.bvh.some = query.linear.some
        /\ (query.bvh.some /\ query.linear.some) =>
               query.bvh.hit.t = query.linear.hit.t

\* C10: over a scene with no render objects and no meshes the BVH is built
\* (rendering goes on to completion), and every ray cast against it misses,
\* in the tree and in the list alike.
C10_EmptySceneRenders ==
    (list = <<>> /\ bvhStatus # "none") =>
        /\ bvhStatus = "built"
        /\ query.asked => (~query.bvh.some /\ ~query.linear.some)

\* the hittables under a node of the tree, from left to right
RECURSIVE TreeObjs(_)
TreeObjs(node) ==
    IF node.kind = "Branch" THEN TreeObjs(node.kids[1]) \o TreeObjs(node.kids[2])
    ELSE node.objs

\* twice the centre of the bounding box of s along axis c
BoxCentre2(s, c) == ObjBox(s).min[c] + ObjBox(s).max[c]

\* the node was built at depth d as the build is described: its hittables
\* split in slice order along axis d mod 3 by the centres of their boxes, a
\* leaf of one, a double-leaf of two, else a branch over the first half
\* (rounded down) and the rest, both built at depth d + 1
RECURSIVE BuiltByCentres(_, _)
BuiltByCentres(node, d) ==
    LET n == Len(TreeObjs(node))
        c == (d % 3) + 1
    IN /\ n = 1 <=> node.kind = "Leaf"
       /\ n = 2 <=> node.kind = "DoubleLeaf"
       /\ n >= 3 <=> node.kind = "Branch"
       /\ node.kind = "DoubleLeaf" =>
              BoxCentre2(node.objs[1], c) <= BoxCentre2(node.objs[2], c)
       /\ node.kind = "Branch" =>
              /\ Len(TreeObjs(node.kids[1])) = n \div 2
              /\ \A i \in 1..Len(TreeObjs(node.kids[1])),
                    j \in 1..Len(TreeObjs(node.kids[2])) :
                     BoxCentre2(TreeObjs(node.kids[1])[i], c)
                         <= BoxCentre2(TreeObjs(node.kids[2])[j], c)
              /\ BuiltByCentres(node.kids[1], d + 1)
              /\ BuiltByCentres(node.kids[2], d + 1)

\* C20: the tree BVHNode::new builds is the one the build describes: at
\* depth d the slice is ordered by the centres of the bounding boxes along
\* axis d mod 3; one hittable gives a leaf, two a double-leaf, three or more
\* a branch over the first half (rounded down) and the rest.
C20_BuildByCentres == bvhStatus = "built" => BuiltByCentres(bvh, 0)

\* C18: a ray whose direction has no component along the third axis of an
\* axis-aligned rectangle misses the rectangle, whether or not its origin
\* lies in the plane of the rectangle.
C18_ParallelRayMisses ==
    (/\ query.asked
     /\ Len(list) = 1
     /\ "a1" \in DOMAIN list[1]
     /\ query.ray.dir[AxisOther(list[1].a1, list[1].a2)] = Fin(0)) => ~query.linear.some

\* box `inner` lies inside box `outer` on every axis
BoxIn(inner, outer) ==
    \A c \in Axes : outer.min[c] <= inner.min[c] /\ inner.max[c] <= outer.max[c]

\* box u is the union of boxes a and b: it holds both, and each of its
\* coordinates is a coordinate of one of them
IsUnionBox(u, a, b) ==
    /\ BoxIn(a, u)
    /\ BoxIn(b, u)
    /\ \A c \in Axes : /\ u.min[c] \in {a.min[c], b.min[c]}
                       /\ u.max[c] \in {a.max[c], b.max[c]}

\* every node under `node` caches the box of its subtree
RECURSIVE NodeBoxesHold(_)
NodeBoxesHold(node) ==
    /\ \A i \in 1..Len(TreeObjs(node)) : BoxIn(ObjBox(TreeObjs(node)[i]), node.aabb)
    /\ node.kind = "Leaf" => node.aabb = ObjBox(node.objs[1])
    /\ node.kind = "DoubleLeaf" =>
           IsUnionBox(node.aabb, ObjBox(node.objs[1]), ObjBox(node.objs[2]))
    /\ node.kind = "Branch" =>
           /\ IsUnionBox(node.aabb, node.kids[1].aabb, node.kids[2].aabb)
           /\ NodeBoxesHold(node.kids[1])
           /\ NodeBoxesHold(node.kids[2])

\* C21: in every tree the build produces, the box cached in a node holds the
\* bounding box of every hittable of the node's subtree: a leaf's box is its
\* hittable's box, a double-leaf's and a branch's box is the union of the
\* boxes of its two children.
C21_NodeBoxesHold == bvhStatus = "built" => NodeBoxesHold(bvh)

\* a branch over a leaf and a double-leaf whose boxes do not hold one another
C21_Witness ==
    /\ bvhStatus = "built"
    /\ bvh.kind = "Branch"
    /\ bvh.kids[2].kind = "DoubleLeaf"
    /\ ~BoxIn(bvh.kids[1].aabb, bvh.kids[2].aabb)
    /\ ~BoxIn(bvh.kids[2].aabb, bvh.kids[1].aabb)
    /\ bvh.aabb # bvh.kids[1].aabb
    /\ bvh.aabb # bvh.kids[2].aabb

\* the two children of a double-leaf or a branch
Children(node) == IF node.kind = "Branch" THEN node.kids ELSE node.objs

\* the hit of a child of a node: of a subtree or of a hittable
ChildHit(child, r, t_min, t_max) ==
    IF "kids" \in DOMAIN child THEN BVHHit(child, r, t_min, t_max)
    ELSE ObjHit(child, r, t_min, t_max)

\* res is what a node reports of the hits l and h of its two children: a miss
\* when neither hits, the only hit, or of two hits one that the other is not
\* closer than
IsCloserOf(res, l, h) ==
    /\ (~l.some /\ ~h.some) => res = NoHit
    /\ (l.some /\ ~h.some) => res = l
    /\ (~l.some /\ h.some) => res = h
    /\ (l.some /\ h.some) =>
           /\ res \in {l, h}
           /\ ~FLt(l.hit.t, res.hit.t)
           /\ ~FLt(h.hit.t, res.hit.t)

\* the query of `node` and of every node below it that is probed goes as
\* described
RECURSIVE QueryAsDescribed(_, _, _, _)
QueryAsDescribed(node, r, t_min, t_max) ==
    /\ ~AABBHit(node.aabb, r, t_min, t_max) =>
           /\ BVHHit(node, r, t_min, t_max) = NoHit
           /\ NodeProbes(node, r, t_min, t_max) = <<>>
    /\ (AABBHit(node.aabb, r, t_min, t_max) /\ node.kind # "Leaf") =>
           /\ NodeProbes(node, r, t_min, t_max) =
                  <<[of |-> Children(node)[1], t_min |-> t_min, t_max |-> t_max],
                    [of |-> Children(node)[2], t_min |-> t_min, t_max |-> t_max]>>
           /\ IsCloserOf(BVHHit(node, r, t_min, t_max),
                         ChildHit(Children(node)[1], r, t_min, t_max),
                         ChildHit(Children(node)[2], r, t_min, t_max))
           /\ node.kind = "Branch" =>
                  /\ QueryAsDescribed(node.kids[1], r, t_min, t_max)
                  /\ QueryAsDescribed(node.kids[2], r, t_min, t_max)

\* C22: a query of a node whose box is not hit within [t_min, t_max] is a
\* miss and probes no child; otherwise a double-leaf or a branch probes both
\* children with the unmodified [t_min, t_max] and reports the hit with the
\* smaller t, or the only hit, or a miss when neither child hits.
C22_QueryProbesBoth ==
    query.asked =>
        /\ query.bvh = BVHHit(bvh, query.ray, query.t_min, query.t_max)
        /\ QueryAsDescribed(bvh, query.ray, query.t_min, query.t_max)

\* a query of a branch or double-leaf both of whose children are hit, the
\* second one closer than the first
C22_Witness ==
    /\ query.asked
    /\ bvh.kind # "Leaf"
    /\ AABBHit(bvh.aabb, query.ray, query.t_min, query.t_max)
    /\ ChildHit(Children(bvh)[1], query.ray, query.t_min, query.t_max).some
    /\ ChildHit(Children(bvh)[2], query.ray, query.t_min, query.t_max).some
    /\ FLt(ChildHit(Children(bvh)[2], query.ray, query.t_min, query.t_max).hit.t,
           ChildHit(Children(bvh)[1], query.ray, query.t_min, query.t_max).hit.t)
    /\ query.bvh = ChildHit(Children(bvh)[2], query.ray, query.t_min, query.t_max)

\* a query whose ray misses the box of the root
C22_MissWitness ==
    /\ query.asked
    /\ ~AABBHit(bvh.aabb, query.ray, query.t_min, query.t_max)
    /\ ~query.bvh.some

\* the number of nested calls of new_helper that built the node
RECURSIVE TreeDepth(_)
TreeDepth(node) ==
    IF node.kind = "Branch"
    THEN 1 + Max2(TreeDepth(node.kids[1]), TreeDepth(node.kids[2]))
    ELSE 1

\* the least k with 2^k >= n, for n >= 1
CeilLog2(n) == CHOOSE k \in 0..n : 2^k >= n /\ \A j \in 0..(k - 1) : 2^j < n

\* every call under the node was made on a shorter slice than its parent's
RECURSIVE SlicesShrink(_)
SlicesShrink(node) ==
    node.kind = "Branch" =>
        /\ Len(TreeObjs(node.kids[1])) < Len(TreeObjs(node))
        /\ Len(TreeObjs(node.kids[2])) < Len(TreeObjs(node))
        /\ SlicesShrink(node.kids[1])
        /\ SlicesShrink(node.kids[2])

\* C28: BVHNode::new returns for a list of every length n >= 0, the empty
\* list included; for n >= 1 the recursion is at most ceil(log2 n) + 1 calls
\* deep, and no call is made on a slice as long as its parent's.
C28_BuildTerminates ==
    /\ bvhStatus # "overflow"
    /\ bvhStatus = "built" =>
           /\ TreeDepth(bvh) <= CeilLog2(Len(list)) + 1
           /\ SlicesShrink(bvh)

\* sequences a and b hold the same elements, each as many times
SameBag(a, b) ==
    /\ Len(a) = Len(b)
    /\ \A i \in 1..Len(a) :
           Cardinality({j \in 1..Len(a) : a[j] = a[i]})
               = Cardinality({j \in 1..Len(b) : b[j] = a[i]})

\* C29: a build only reorders the list: after it the list holds the
\* hittables it held before, and each of them is referred to by exactly one
\* slot of a leaf or double-leaf of the tree, none dropped and none twice.
C29_BuildOnlyReorders ==
    [][(bvhStatus = "none" /\ bvhStatus' = "built") =>
           /\ SameBag(list, list')
           /\ SameBag(TreeObjs(bvh'), list')]_vars

\* a tree built over three different hittables
C29_Witness ==
    /\ bvhStatus = "built"
    /\ Len(list) = 3
    /\ Cardinality({list[i] : i \in 1..3}) = 3
    /\ bvh.kind = "Branch"
    /\ Len(TreeObjs(bvh)) = 3

\* the arrangements of a sequence
Arrangements(l) == {[i \in 1..Len(l) |-> l[p[i]]] : p \in Permutations(1..Len(l))}

\* the elements of l that a ray hits within [t_min, t_max], each on its own
HitOnes(l, r, t_min, t_max) == {i \in 1..Len(l) : ObjHit(l[i], r, t_min, t_max).some}

\* C23: the linear closest-hit scan reports a miss exactly when no element is
\* hit within [t_min, t_max]; otherwise it reports a hit whose t is the least
\* t of the elements' hits in that interval, and the same for every order of
\* the elements.
C23_LinearScanClosest ==
    query.asked =>
        /\ query.linear = ListHit(list, query.ray, query.t_min, query.t_max)
        /\ query.linear.some <=> HitOnes(list, query.ray, query.t_min, query.t_max) # {}
        /\ query.linear.some =>
               /\ \E i \in HitOnes(list, query.ray, query.t_min, query.t_max) :
                      query.linear.hit.t
                          = ObjHit(list[i], query.ray, query.t_min, query.t_max).hit.t
               /\ \A i \in HitOnes(list, query.ray, query.t_min, query.t_max) :
                      ~FLt(ObjHit(list[i], query.ray, query.t_min, query.t_max).hit.t,
                           query.linear.hit.t)
        /\ \A q \in Arrangements(list) :
               /\ ListHit(q, query.ray, query.t_min, query.t_max).some = query.linear.some
               /\ query.linear.some =>
                      ListHit(q, query.ray, query.t_min, query.t_max).hit.t
                          = query.linear.hit.t

-----------------------------------------------------------------------------
(* Claims about the scene builder *)

\* C11: every mesh TriangleMesh::new returned, and so every mesh of the
\* scene, has a number of indices that is a multiple of 3 and, where it has
\* normals or uvs, as many of them as vertices; with other arguments new
\* returns an error and no mesh.
C11_MeshesWellFormed ==
    \A i \in 1..Len(scene.meshes) :
        /\ Len(scene.meshes[i].indicies) % 3 = 0
        /\ scene.meshes[i].normals # None => scene.meshes[i].normals = scene.meshes[i].verts
        /\ scene.meshes[i].uvs # None => scene.meshes[i].uvs = scene.meshes[i].verts

\* C17: the object list of the SceneInternal holds the render objects of the
\* Scene in order, then one render object per mesh, at the origin, not
\* rotated, not flipped, holding the mesh's BVH and that BVH's box.
C17_ConversionKeepsObjects ==
    internal.made =>
        /\ Len(internal.render_objects) = Len(scene.render_objects) + Len(scene.meshes)
        /\ \A i \in 1..Len(scene.render_objects) :
               /\ internal.render_objects[i].obj = scene.render_objects[i].obj
               /\ internal.render_objects[i].position = scene.render_objects[i].position
               /\ internal.render_objects[i].flip_normals
                      = scene.render_objects[i].flip_normals
               /\ internal.render_objects[i].mesh = <<>>
        /\ \A j \in 1..Len(scene.meshes) :
               LET ro == internal.render_objects[Len(scene.render_objects) + j]
               IN /\ ro.obj.kind = "MeshBVH"
                  /\ ro.mesh = <<scene.meshes[j]>>
                  /\ ro.position = <<0, 0, 0>>
                  /\ ro.rotation_mat = Identity3
                  /\ ro.inv_rotation_mat = Identity3
                  /\ ~ro.flip_normals
                  /\ ro.aabb = <<"bounding_box", ro.obj, scene.meshes[j]>>

\* a converted scene of two render objects, one of them a volume, and a mesh
C17_Witness ==
    /\ internal.made
    /\ Len(scene.render_objects) = 2
    /\ scene.render_objects[1].obj.kind # scene.render_objects[2].obj.kind
    /\ Len(scene.meshes) = 1
    /\ Len(internal.render_objects) = 3

\* C8: every MaterialIdx add_material has returned is in bounds of the pool
\* and names the material it was returned for, in the Scene after any
\* sequence of additions and in the SceneInternal after the conversion.
C8_HandlesStayValid ==
    \A h \in handles :
        /\ ~GetMaterialPanics(scene.materials, h.idx)
        /\ get_material(scene.materials, h.idx) = h.mat
        /\ internal.made =>
               /\ ~GetMaterialPanics(internal.materials, h.idx)
               /\ get_material(internal.materials, h.idx) = h.mat

\* two handles, one of them returned inside add_volume, objects, a mesh and
\* an environment added after the first, and the scene converted
C8_Witness ==
    /\ internal.made
    /\ Cardinality(handles) = 2
    /\ \E i \in 1..Len(internal.render_objects) :
           internal.render_objects[i].obj.kind = "ConstantMedium"
    /\ \E i \in 1..Len(internal.render_objects) :
           internal.render_objects[i].mesh # <<>>
    /\ internal.environment # ColorEnvDefault
    /\ internal.materials[1].kind # "Isotropic"

\* C9: once a scene is built from meshes whose construction returned Ok, no
\* step of the render (scene bounding box, material lookup for a hit,
\* triangle vertex access for k < num_tris()) panics.
C9_RenderNeverPanics == scenePhase # "panicked"

-----------------------------------------------------------------------------
(* Claims about the path-trace recursion *)

TraceLog == trace.log
ScatterAttempts == {i \in 1..Len(TraceLog) : TraceLog[i].scatter \in {"some", "none"}}

\* C5: one call color(ray, 0) ends after at most 11 nested calls, at depths
\* 0 to 10; scatter is attempted at most MAX_DEPTH = 10 times along the
\* path, and a hit at depth >= 10 returns the emitted value without a scatter.
C5_DepthCapped ==
    trace.pc = "done" =>
        /\ Len(TraceLog) <= 11
        /\ Cardinality(ScatterAttempts) <= 10
        /\ \A i \in 1..Len(TraceLog) :
               /\ TraceLog[i].depth = i - 1
               /\ TraceLog[i].depth <= 10
               /\ (TraceLog[i].hit /\ TraceLog[i].depth >= 10) =>
                      /\ TraceLog[i].scatter = "skipped"
                      /\ TraceLog[i].value = TraceLog[i].emit

\* C5 for the library's color (render.rs) alone
C5_RenderColorCapped == (trace.pc = "done" /\ trace.by = "render") => C5_DepthCapped

\* a path of the library's color that scattered ten times and hit at depth 10
C5_Witness ==
    /\ trace.pc = "done"
    /\ trace.by = "render"
    /\ Len(TraceLog) = 11
    /\ Cardinality(ScatterAttempts) = 10
    /\ TraceLog[11].hit

\* C6: for a hit at depth < 10, color returns E + attenuation * (the value
\* of the call on the scattered ray) when scatter succeeds and exactly E when
\* it fails, E being the material's emission at the hit.
C6_HitValue ==
    trace.pc = "done" =>
        \A i \in 1..Len(TraceLog) :
            (TraceLog[i].hit /\ TraceLog[i].depth < 10) =>
                /\ TraceLog[i].scatter \in {"some", "none"}
                /\ TraceLog[i].scatter = "some" =>
                       /\ i < Len(TraceLog)
                       /\ TraceLog[i].value =
                              IF trace.by = "render"
                              THEN VAdd(TraceLog[i].emit,
                                        VMul(TraceLog[i].attenuation, TraceLog[i + 1].value))
                              ELSE vec3_add(TraceLog[i].emit,
                                            vec3_mul(TraceLog[i].attenuation,
                                                     TraceLog[i + 1].value))
                /\ TraceLog[i].scatter = "none" => TraceLog[i].value = TraceLog[i].emit

\* a path whose first hit scattered and whose second hit emitted light and
\* did not scatter, so that both cases carry a non-zero value
C6_Witness ==
    /\ trace.pc = "done"
    /\ Len(TraceLog) = 2
    /\ TraceLog[1].scatter = "some"
    /\ TraceLog[2].scatter = "none"
    /\ TraceLog[2].emit # Zero3
    /\ TraceLog[1].value # Zero3

\* C7: a call of the library's color whose ray hits nothing in
\* [0.001, 2e9] returns the environment of the scene sampled at the
\* normalized ray direction, at every depth.
C7_MissIsEnvironment ==
    (trace.pc = "done" /\ trace.by = "render") =>
        \A i \in 1..Len(TraceLog) :
            ~TraceLog[i].hit =>
                TraceLog[i].value = EnvSample(environment, Normalized(TraceLog[i].ray.dir))

-----------------------------------------------------------------------------
(* Claims about the render loop *)

\* C2: every pixel is entered with a generator made fresh for it and seeded
\* with its flat index, and the colour written for pixel i is the colour
\* computed from that generator, whatever was rendered before it.
C2_PixelStreamSeededByIndex ==
    main.pc # "start" =>
        \A i \in 1..Len(main.buffer) :
            main.written[i] > 0 =>
                /\ main.seeded[i] = LcRngNew(i - 1)
                /\ main.buffer[i] = Pixel(main, i - 1, LcRngNew(i - 1)).value

C13_FromIndex ==
    call.op = "coord" =>
        /\ call.pos = <<call.idx % call.width, call.height - (call.idx \div call.width)>>
        /\ \A j \in 0..(call.width * call.height - 1) :
               /\ j # call.idx => from_index(j, call.width, call.height) # call.pos
               /\ j > call.idx => from_index(j, call.width, call.height)[2] <= call.pos[2]
               /\ call.idx < call.width =>
                      from_index(j, call.width, call.height)[2] <= call.pos[2]
        /\ call.idx < call.width => call.pos[2] = call.height

\* the last index of a buffer three wide and four high
C13_Witness ==
    /\ call.op = "coord"
    /\ call.width = 3
    /\ call.height = 4
    /\ call.idx = 11
    /\ call.pos = <<2, 1>>

\* C14: for every index of the buffer and every pair of offsets in [0, 1)
\* the jittered coordinates (u, v) handed to Camera::ray lie in [0, 1] x [0, 1].
C14_JitterInUnitSquare ==
    call.op = "coord" =>
        /\ f32_le(0, call.uv[1]) /\ f32_le(call.uv[1], f32_of_int(1))
        /\ f32_le(0, call.uv[2]) /\ f32_le(call.uv[2], f32_of_int(1))

\* C15: the box from_two_points(p, q) makes has min <= max on each axis and
\* holds p and q, in whatever order the two points are given.
C15_FromTwoPoints ==
    call.op = "from_two_points" =>
        \A c \in 1..3 :
            /\ call.box.min[c] <= call.box.max[c]
            /\ call.box.min[c] <= call.p0[c] /\ call.p0[c] <= call.box.max[c]
            /\ call.box.min[c] <= call.p1[c] /\ call.p1[c] <= call.box.max[c]

\* two points neither of which is below the other on every axis
C15_Witness ==
    /\ call.op = "from_two_points"
    /\ call.p0[1] > call.p1[1]
    /\ call.p0[2] < call.p1[2]
    /\ call.box.min = <<call.p1[1], call.p0[2], call.p0[3]>>

\* C19: Sphere::hit returns the smaller root of the quadratic if it lies
\* strictly inside (t_min, t_max), else the larger root if that one does,
\* else a miss; a tangent ray has one root only; the t returned is never
\* outside (t_min, t_max).
C19_SphereHit ==
    call.op = "sphere_hit" =>
        LET Inside(root) == root.some /\ call.t_min < root.t /\ root.t < call.t_max
            disc == Quot(call.quadratic[2] * call.quadratic[2], 1000)
                        - Quot(4 * call.quadratic[1] * call.quadratic[3], 1000)
        IN /\ call.hit.some =>
                  call.t_min < call.hit.hit.t[2] /\ call.hit.hit.t[2] < call.t_max
           /\ (call.roots[1].some /\ call.roots[2].some) =>
                  call.roots[1].t <= call.roots[2].t
           /\ disc = 0 => (call.roots[1].some /\ ~call.roots[2].some)
           /\ disc < 0 => (~call.roots[1].some /\ ~call.roots[2].some)
           /\ Inside(call.roots[1]) =>
                  (call.hit.some /\ call.hit.hit.t = Fin(call.roots[1].t))
           /\ (~Inside(call.roots[1]) /\ Inside(call.roots[2])) =>
                  (call.hit.some /\ call.hit.hit.t = Fin(call.roots[2].t))
           /\ (~Inside(call.roots[1]) /\ ~Inside(call.roots[2])) => ~call.hit.some

\* a ray from inside the sphere: the smaller root is behind the origin and
\* the larger one is returned
C19_Witness ==
    /\ call.op = "sphere_hit"
    /\ call.roots[1].some /\ call.roots[1].t < 0
    /\ call.roots[2].some
    /\ call.hit.some /\ call.hit.hit.t = Fin(call.roots[2].t)

\* a ray tangent to the sphere, hit at its single root
C19_TangentWitness ==
    /\ call.op = "sphere_hit"
    /\ call.roots[1].some /\ ~call.roots[2].some
    /\ call.hit.some

\* C16: whenever DielectricMat::scatter compares the random draw with the
\* Schlick reflectance, that reflectance lies in [0, 1]; and the ray scattered
\* has a direction that is not zero.
C16_SchlickInUnitInterval ==
    call.op = "dielectric" =>
        /\ call.result.some
        /\ \E c \in 1..3 : ~f32_is_zero(call.result.scattered.dir[c])
        /\ call.result.compared =>
               /\ f32_le(0, call.result.reflectance)
               /\ f32_le(call.result.reflectance, f32_of_int(1))

\* C12: the aabb cached for a render object holds every hit point the hit of
\* the object returns, for every position and every rotation of the object,
\* the rotations too small to count as significant included.
C12_BoxHoldsHitPoints ==
    (call.op = "render_object" /\ call.hit.some) =>
        \A c \in 1..3 :
            /\ IsFin(call.hit.hit.point[c])
            /\ call.obj.aabb.min[c] <= call.hit.hit.point[c][2]
            /\ call.hit.hit.point[c][2] <= call.obj.aabb.max[c]

\* the direction a metal scatters into: the reflected direction plus
\* roughness times a point of the unit sphere
FuzzedReflected(c) ==
    FVAdd(reflect(c.dir, F3(c.normal)),
          FVScale(Fin(c.mat.roughness), F3(random_in_unit_sphere(c.rng).value)))

\* a <= b on f32: false when either side is NaN
FLe(a, b) == ~IsNaN(a) /\ ~IsNaN(b) /\ ~FLt(b, a)

\* C24: the outcome of scatter by material: an emissive material scatters
\* nothing for every hit and emits its texture sample; a metal scatters
\* nothing exactly when the fuzzed reflected direction dotted with the normal
\* is <= 0; Lambertian, dielectric and isotropic materials scatter a ray for
\* every hit, the dielectric always with attenuation (1, 1, 1); every material
\* that is not emissive emits zero.
C24_ScatterByMaterial ==
    call.op = "scatter" =>
        /\ "ref_idx" \notin DOMAIN call.mat =>
               /\ call.mat.kind = "Emissive" =>
                      (~call.result.some /\ call.emit = call.mat.albedo)
               /\ call.mat.kind = "Metal" =>
                      (~call.result.some <=>
                           FLe(FVDot(FuzzedReflected(call), F3(call.normal)), Fin(0)))
               /\ call.mat.kind \in {"Lambertian", "Isotropic"} => call.result.some
        /\ "ref_idx" \in DOMAIN call.mat =>
               (call.result.some
                /\ call.result.attenuation = One3)
        /\ ("ref_idx" \in DOMAIN call.mat \/ call.mat.kind # "Emissive") =>
               call.emit = Zero3

\* C24 for the rays whose direction is a number: what the materials do with
\* every ray that is not NaN
C24_FiniteRays ==
    (call.op = "scatter" /\ IsFin3(call.dir)) => C24_ScatterByMaterial

\* C25: ConstantMedium::hit looks for the entry hit over all t and for the
\* exit hit over all t after the entry, whatever the interval of the caller;
\* it is a miss when either is absent or when the entry clamped up to t_min
\* is not before the exit clamped down to t_max; a hit it reports has its t
\* from the clamped entry (not below 0) up to but not including the clamped
\* exit, so within [t_min, t_max], and carries the material of the medium
\* and the uv (0, 0).
C25_MediumHit ==
    call.op = "constant_medium" =>
        /\ call.result.rec1.some <=> call.roots[1].some
        /\ call.result.rec1.some => call.result.rec1.hit.t = Fin(call.roots[1].t)
        /\ call.result.rec2.some <=>
               (call.roots[2].some /\ call.roots[2].t > call.roots[1].t)
        /\ call.result.rec2.some => call.result.rec2.hit.t = Fin(call.roots[2].t)
        /\ (~call.result.rec1.some \/ ~call.result.rec2.some) => ~call.result.hit.some
        /\ (call.result.rec1.some /\ call.result.rec2.some
              /\ Max2(call.roots[1].t, call.t_min) >= Min2(call.roots[2].t, call.t_max))
               => ~call.result.hit.some
        /\ call.result.hit.some =>
               /\ Max2(Max2(call.roots[1].t, call.t_min), 0) <= call.result.hit.hit.t[2]
               /\ call.result.hit.hit.t[2] < Min2(call.roots[2].t, call.t_max)
               /\ call.t_min <= call.result.hit.hit.t[2]
               /\ call.result.hit.hit.t[2] <= call.t_max
               /\ call.result.hit.hit.material = call.medium.material
               /\ call.result.hit.hit.uv = <<0, 0>>

\* a hit inside a medium that the ray entered before the interval began: the
\* entry root is below t_min, the hit is at or after t_min
C25_Witness ==
    /\ call.op = "constant_medium"
    /\ call.result.hit.some
    /\ call.roots[1].t < call.t_min
    /\ call.roots[1].t < 0
    /\ call.result.hit.hit.t[2] > call.t_min
    /\ call.result.hit.hit.t[2] < call.roots[2].t

\* a miss because the clamped entry is not before the clamped exit
C25_MissWitness ==
    /\ call.op = "constant_medium"
    /\ call.result.rec1.some
    /\ call.result.rec2.some
    /\ Max2(call.roots[1].t, call.t_min) >= Min2(call.roots[2].t, call.t_max)
    /\ ~call.result.hit.some

Abs(n) == IF n < 0 THEN -n ELSE n

\* C26: Triangle::hit permutes the coordinates so that the component of the
\* direction that is largest in absolute value becomes z: for every direction
\* that is not zero, also one whose largest component is negative, the z of
\* the permuted direction is not zero, and the shear factors -dx/dz, -dy/dz
\* and 1/dz are finite.
C26_LargestBecomesZ ==
    call.op = "triangle_shear" =>
        /\ call.shear.d[3] # 0
        /\ Abs(call.shear.d[3]) >= Abs(call.shear.d[1])
        /\ Abs(call.shear.d[3]) >= Abs(call.shear.d[2])
        /\ IsFin(call.shear.sx)
        /\ IsFin(call.shear.sy)
        /\ IsFin(call.shear.sz)

\* the flat axis of a planar shape (0 for a sphere): y for a disk, the axis
\* that is not one of its two for a rectangle
FlatAxis(s) ==
    IF "flipped" \in DOMAIN s THEN AxisOther(s.flipped[1].a1, s.flipped[1].a2)
    ELSE IF "kind" \notin DOMAIN s THEN AxisOther(s.a1, s.a2)
    ELSE IF s.kind = "Disk" THEN 2
    ELSE 0

\* C30: every point the hit of a primitive returns lies inside the box its
\* bounding_box returns, and that box has min <= max on every axis, and min
\* < max on the flat axis of a planar shape.
C30_HitPointInBox ==
    call.op = "shape" =>
        /\ \A c \in Axes : call.box.min[c] <= call.box.max[c]
        /\ FlatAxis(call.shape) # 0 =>
               call.box.min[FlatAxis(call.shape)] < call.box.max[FlatAxis(call.shape)]
        /\ call.hit.some =>
               \A c \in Axes :
                   /\ IsFin(call.hit.hit.point[c])
                   /\ call.box.min[c] <= call.hit.hit.point[c][2]
                   /\ call.hit.hit.point[c][2] <= call.box.max[c]

\* the ray in the coordinates of the object as the transformation is
\* described: o' = R^-1 (o - pos) and d' = R^-1 d for a significant rotation,
\* o' = o - pos and d' = d otherwise
LocalRay(obj, r) ==
    IF IsSignificant(obj.rotation_mat)
    THEN Ray(MatVec(obj.inv_rotation_mat, VSub(r.origin, obj.position)),
             MatVec(obj.inv_rotation_mat, r.dir))
    ELSE Ray(VSub(r.origin, obj.position), r.dir)

\* the hit of the inner hittable of the call
LocalHit == ObjHit(call.obj.obj, FRay(LocalRay(call.obj, call.ray)), Fin(1), Fin(5000))

\* two points agree to within 0.005 on every axis, the rounding of the
\* products to the thousandth allowed for
NearPoints(p, q) ==
    \A c \in Axes : IsFin(p[c]) /\ IsFin(q[c]) /\ Abs(p[c][2] - q[c][2]) <= 5

\* C27: for every position and rotation of a render object the hit it
\* returns fits the world ray: the world point returned is the world ray at
\* the t returned, t and material are those of the hit of the inner
\* hittable, and the normal is R n_local, negated exactly when flip_normals
\* is set; the hit is rotated on the way out by the rule the ray is rotated
\* by on the way in.
C27_HitFitsWorldRay ==
    (call.op = "render_object" /\ call.hit.some) =>
        /\ LocalHit.some
        /\ call.hit.hit.t = LocalHit.hit.t
        /\ call.hit.hit.material = LocalHit.hit.material
        /\ call.hit.hit.normal =
               IF call.obj.flip_normals
               THEN VSub(Zero3, MatVec(call.obj.rotation_mat, LocalHit.hit.normal))
               ELSE MatVec(call.obj.rotation_mat, LocalHit.hit.normal)
        /\ NearPoints(call.hit.hit.point, RayPoint(FRay(call.ray), call.hit.hit.t))

=============================================================================
